---- MODULE Spec2Model ----
(***************************************************************************)
(* Model of the video reception / decoding pipeline of                     *)
(* src/rtp/video_decoders.cpp: the receiver stage (decode_video_frame,     *)
(* run by the caller's network thread), the FEC thread, the                *)
(* decompress/display thread, the two single-slot queues between them,     *)
(* the reconfiguration mailbox and the buffer_swapped handoff of the       *)
(* display framebuffer.                                                    *)
(***************************************************************************)
EXTENDS Integers, Sequences, FiniteSets, TLC

----------------------------------------------------------------------------
(* Bounds of the model *)

\* number of decode_video_frame calls explored
MaxBuffers == 3
\* packets per buffer
MaxPkts == 2
\* buffers the sender may skip between two delivered buffers
MaxSkip == 1
\* video_decoder_remove_display calls explored
MaxRemovals == 1
\* declared length of a substream buffer in the packets explored (bytes)
BufLen == 2

(* Program constants *)

\* a fec_queue declared one slot too long
fec_queue_one_more == 1 + 1

\* synchronized_queue<unique_ptr<frame_msg>, 1> decompress_queue / fec_queue
decompress_queue_max_len == 1
fec_queue_max_len == 1
\* buffer_number = tmp & 0x3fffff
BufferMask == 4194303

----------------------------------------------------------------------------
(* Value domains *)

Offsets == 0 .. (BufLen - 1)
\* decompressor instances of the process and reconfigure calls on each
MaxInstances == 2
MaxReconf == 2
Instances == 1 .. MaxInstances

PT_VIDEO == "PT_VIDEO"
PT_VIDEO_LDGM == "PT_VIDEO_LDGM"
PT_ENCRYPT_VIDEO == "PT_ENCRYPT_VIDEO"
PT_ENCRYPT_VIDEO_LDGM == "PT_ENCRYPT_VIDEO_LDGM"
PT_UNKNOWN == "PT_UNKNOWN"
PT_VIDEO_RS == "PT_VIDEO_RS"
PayloadTypes == {PT_VIDEO, PT_VIDEO_LDGM, PT_ENCRYPT_VIDEO, PT_ENCRYPT_VIDEO_LDGM, PT_UNKNOWN}
\* with the Reed-Solomon payload type of "case PT_VIDEO_RS:"
AllPayloadTypes == PayloadTypes \cup {PT_VIDEO_RS}

PT_VIDEO_HAS_FEC(pt) == pt \in {PT_VIDEO_LDGM, PT_ENCRYPT_VIDEO_LDGM, PT_VIDEO_RS}
PT_VIDEO_IS_ENCRYPTED(pt) == pt \in {PT_ENCRYPT_VIDEO, PT_ENCRYPT_VIDEO_LDGM}

FEC_NONE == "FEC_NONE"
FEC_LDGM == "FEC_LDGM"
FEC_RS == "FEC_RS"
fec_type_from_pt(pt) ==
    IF pt = PT_VIDEO_RS THEN FEC_RS
    ELSE IF PT_VIDEO_HAS_FEC(pt) THEN FEC_LDGM ELSE FEC_NONE
\* struct fec_desc; k stands for the parameters (k, m, c, seed)
fec_desc(type, k) == [type |-> type, k |-> k]
FecKs == {1}

UNSET == "UNSET"
LINE_DECODER == "LINE_DECODER"
EXTERNAL_DECODER == "EXTERNAL_DECODER"

DECODER_GOT_FRAME == "DECODER_GOT_FRAME"
DECODER_NO_FRAME == "DECODER_NO_FRAME"
DECODER_CANT_DECODE == "DECODER_CANT_DECODE"
DecompressStatus == {DECODER_GOT_FRAME, DECODER_NO_FRAME, DECODER_CANT_DECODE}

VIDEO_CODEC_NONE == "NONE"
DXTCodecs == {"DXT1", "DXT1_YUV", "DXT5"}

VIDEO_UNKNOWN == "VIDEO_UNKNOWN"
VIDEO_NORMAL == "VIDEO_NORMAL"
VIDEO_STEREO == "VIDEO_STEREO"
VIDEO_3X1 == "VIDEO_3X1"
VIDEO_4K == "VIDEO_4K"

get_video_mode_tiles_x(vm) ==
    CASE vm = VIDEO_NORMAL -> 1
      [] vm = VIDEO_STEREO -> 2
      [] vm = VIDEO_4K -> 2
      [] vm = VIDEO_3X1 -> 3
      [] OTHER -> 0

get_video_mode_tiles_y(vm) ==
    CASE vm = VIDEO_NORMAL -> 1
      [] vm = VIDEO_STEREO -> 1
      [] vm = VIDEO_4K -> 2
      [] vm = VIDEO_3X1 -> 1
      [] OTHER -> 0

\* the guess of a mode with fewer tiles: the table applied to the substream id
guess_video_mode_low(num_substreams) ==
    CASE num_substreams = 2 -> VIDEO_NORMAL
      [] num_substreams = 3 -> VIDEO_STEREO
      [] num_substreams = 4 -> VIDEO_3X1
      [] OTHER -> VIDEO_UNKNOWN

guess_video_mode(num_substreams) ==
    CASE num_substreams = 1 -> VIDEO_NORMAL
      [] num_substreams = 2 -> VIDEO_STEREO
      [] num_substreams = 3 -> VIDEO_3X1
      [] num_substreams = 4 -> VIDEO_4K
      [] OTHER -> VIDEO_UNKNOWN

VideoModeTiles(vm) == get_video_mode_tiles_x(vm) * get_video_mode_tiles_y(vm)

\* Formats on the wire (a video_desc without its tile_count): 1 is an
\* uncompressed pixel format, 2 and 3 are compressed ones, 4 carries a FourCC
\* that get_codec_from_fcc does not know.  0 is the zeroed descriptor and -f
\* is format f with its width set to 0.
Formats == {1, 2}
AllFormats == 1 .. 4
\* "decoder->received_vid_desc.width = 0"
ZeroWidth(d) == IF d > 0 THEN 0 - d ELSE d
FormatCodec(f) ==
    LET a == IF f < 0 THEN 0 - f ELSE f
    IN CASE a = 1 -> "UYVY"
         [] a = 2 -> "H264"
         [] a = 3 -> "DXT1"
         [] OTHER -> VIDEO_CODEC_NONE

RECURSIVE SumSeq(_)
SumSeq(s) == IF s = <<>> THEN 0 ELSE Head(s) + SumSeq(Tail(s))

----------------------------------------------------------------------------
(* frame_msg and its parts *)

EmptyPcktList == [o \in Offsets |-> 0]
EmptyTile == [data_len |-> 0, pckt_list |-> EmptyPcktList, data |-> FALSE]

RECURSIVE SumOffsets(_, _)
SumOffsets(m, os) ==
    IF os = {} THEN 0
    ELSE LET o == CHOOSE x \in os : TRUE IN m[o] + SumOffsets(m, os \ {o})

\* sum of the lengths recorded in a packet map (offset -> length; 0: no entry)
sum_map(m) == SumOffsets(m, DOMAIN m)

\* the poison pill: a frame_msg whose recv_frame is null
PoisonMsg ==
    [id |-> 0, poison |-> TRUE, fec |-> fec_desc(FEC_NONE, 0), fmt |-> 0, rec |-> TRUE,
     tiles |-> <<>>, buffer_num |-> 0, is_corrupted |-> FALSE, is_displayed |-> FALSE]

NoMsg == [PoisonMsg EXCEPT !.id = -1]

received_bytes(m) == SumSeq([i \in 1 .. Len(m.tiles) |-> sum_map(m.tiles[i].pckt_list)])
vf_get_data_len(m) == SumSeq([i \in 1 .. Len(m.tiles) |-> m.tiles[i].data_len])

ZeroStats ==
    [displayed |-> 0, dropped |-> 0, corrupted |-> 0, missing |-> 0,
     fec_ok |-> 0, fec_corrected |-> 0, fec_nok |-> 0, reported_frames |-> 0]

\* a destructor that tests the FEC outcome without looking at is_corrupted
frame_msg_dtor_flag_ignored(st, m) ==
    IF m.poison THEN st
    ELSE LET isfec == m.fec.type # FEC_NONE
             full == received_bytes(m) = vf_get_data_len(m)
         IN [st EXCEPT
               !.fec_ok = @ + (IF isfec /\ full THEN 1 ELSE 0),
               !.fec_corrected = @ + (IF isfec /\ ~full THEN 1 ELSE 0),
               !.corrupted = @ + (IF m.is_corrupted THEN 1 ELSE 0),
               !.displayed = @ + (IF m.is_displayed THEN 1 ELSE 0),
               !.reported_frames = @ + 1]

\* a destructor that folds only the messages that were displayed
frame_msg_dtor_displayed_only(st, m) ==
    IF m.poison \/ ~m.is_displayed THEN st
    ELSE [st EXCEPT !.displayed = @ + 1, !.reported_frames = @ + 1]

\* frame_msg::~frame_msg: folds the message's tallies into the shared stats
frame_msg_dtor(st, m) ==
    IF m.poison THEN st
    ELSE LET isfec == m.fec.type # FEC_NONE
             full == received_bytes(m) = vf_get_data_len(m)
         IN [st EXCEPT
               !.fec_nok = @ + (IF isfec /\ m.is_corrupted THEN 1 ELSE 0),
               !.fec_ok = @ + (IF isfec /\ ~m.is_corrupted /\ full THEN 1 ELSE 0),
               !.fec_corrected = @ + (IF isfec /\ ~m.is_corrupted /\ ~full THEN 1 ELSE 0),
               !.corrupted = @ + (IF m.is_corrupted THEN 1 ELSE 0),
               !.displayed = @ + (IF m.is_displayed THEN 1 ELSE 0),
               !.reported_frames = @ + 1]

----------------------------------------------------------------------------
(* synchronized_queue *)

\* a pop that hands out the front message and leaves it in the queue
QPopKeepsFront(q) == q

QCanPush(q, max_len) == Len(q) < max_len
QPush(q, m) == Append(q, m)
QCanPop(q) == Len(q) > 0
QFront(q) == Head(q)
QPop(q) == Tail(q)

----------------------------------------------------------------------------
(* decode_video_frame: the missing-buffers counter *)

\* the value added to stats.missing for the pair (last_buffer_number, buffer_number)
MissingIncrement(last, buffer_number) ==
    IF last = -1 THEN 0
    ELSE LET m0 == buffer_number - ((last + 1) % (BufferMask + 1))
             m1 == (m0 + BufferMask) % BufferMask
         IN IF m1 < BufferMask \div 2 THEN m1 ELSE 1

----------------------------------------------------------------------------
(* Codec / decoder selection *)

\* the first of the indices S of the native list, 0 when there is none
\* (the loops "for (native = 0; native < native_count; ++native)")
FirstNative(S) ==
    IF S = {} THEN 0 ELSE CHOOSE i \in S : \A j \in S : i <= j

\* registry of line decoders: a decoder from `in` to `out`; slow ones are
\* returned only when `slow` is allowed
get_decoder_from_to(reg, in, out, slow) ==
    \/ <<in, out>> \in reg.fast
    \/ slow /\ <<in, out>> \in reg.slow

\* whether a decompress module converting `in` to `out` can be initialised
decompress_init_multi(reg, in, out) == <<in, out>> \in reg.ext

\* a selection that runs the slow-decoder loop before the fast-decoder loop
choose_codec_slow_first(native, color_spec, vmode, reg, ns, acc, old_acc) ==
    LET IsIdentity(i) == /\ native[i] = color_spec
                         /\ ~(native[i] \in DXTCodecs /\ vmode # VIDEO_NORMAL)
        IsSlow(i) == get_decoder_from_to(reg, color_spec, native[i], TRUE)
        IsExt(i) == decompress_init_multi(reg, color_spec, native[i])
        id == FirstNative({i \in 1 .. Len(native) : IsIdentity(i)})
        slow == FirstNative({i \in 1 .. Len(native) : IsSlow(i)})
        ext == FirstNative({i \in 1 .. Len(native) : IsExt(i)})
        Line(i) == [out_codec |-> native[i], decoder_type |-> LINE_DECODER,
                    decompress_state |-> 0, accepts_corrupted_frame |-> old_acc]
    IN IF id # 0 THEN Line(id)
       ELSE IF slow # 0 THEN Line(slow)
       ELSE IF ext # 0
            THEN [out_codec |-> native[ext], decoder_type |-> EXTERNAL_DECODER,
                  decompress_state |-> ns, accepts_corrupted_frame |-> acc]
            ELSE [out_codec |-> VIDEO_CODEC_NONE, decoder_type |-> UNSET,
                  decompress_state |-> 0, accepts_corrupted_frame |-> old_acc]

\* choose_codec_and_decoder: the returned out_codec and what it leaves in
\* decoder_type / decompress_state (entered with decoder_type == UNSET);
\* ns is the number of substreams, acc the decompressor's answer to
\* DECOMPRESS_PROPERTY_ACCEPTS_CORRUPTED_FRAME
choose_codec_and_decoder(native, color_spec, vmode, reg, ns, acc, old_acc) ==
    LET IsIdentity(i) == /\ native[i] = color_spec
                         /\ ~(native[i] \in DXTCodecs /\ vmode # VIDEO_NORMAL)
        IsFast(i) == get_decoder_from_to(reg, color_spec, native[i], FALSE)
        IsSlow(i) == get_decoder_from_to(reg, color_spec, native[i], TRUE)
        IsExt(i) == decompress_init_multi(reg, color_spec, native[i])
        id == FirstNative({i \in 1 .. Len(native) : IsIdentity(i)})
        fast == FirstNative({i \in 1 .. Len(native) : IsFast(i)})
        slow == FirstNative({i \in 1 .. Len(native) : IsSlow(i)})
        ext == FirstNative({i \in 1 .. Len(native) : IsExt(i)})
        Line(i) == [out_codec |-> native[i], decoder_type |-> LINE_DECODER,
                    decompress_state |-> 0, accepts_corrupted_frame |-> old_acc]
    IN IF id # 0 THEN Line(id)
       ELSE IF fast # 0 THEN Line(fast)
       ELSE IF slow # 0 THEN Line(slow)
       ELSE IF ext # 0
            THEN [out_codec |-> native[ext], decoder_type |-> EXTERNAL_DECODER,
                  decompress_state |-> ns, accepts_corrupted_frame |-> acc]
            ELSE [out_codec |-> VIDEO_CODEC_NONE, decoder_type |-> UNSET,
                  decompress_state |-> 0, accepts_corrupted_frame |-> old_acc]

\* a blacklisting that leaves the native list as it is
blacklist_native_kept(native, out_codec) == native

\* blacklist_current_out_codec: the native list afterwards
blacklist_native(native, out_codec) ==
    IF out_codec = VIDEO_CODEC_NONE THEN native
    ELSE [i \in 1 .. Len(native) |->
            IF native[i] = out_codec THEN VIDEO_CODEC_NONE ELSE native[i]]

----------------------------------------------------------------------------
(* State *)

VARIABLES
    display,                 \* decoder->display != NULL
    frame,                   \* decoder->frame: 0 is NULL, else the display frame held
    frames_out,              \* frames the display has handed out and not got back
    buffer_swapped,
    decoder_type,
    line_decoder,            \* entries of decoder->line_decoder, 0 is NULL
    decompress_state,        \* entries of decoder->decompress_state, 0 is NULL
    accepts_corrupted_frame,
    received_vid_desc,       \* a format, 0 when zeroed / invalidated
    display_desc,
    native_codecs,
    out_codec,
    video_mode,
    max_substreams,
    merged_fb,
    decrypt,                 \* decoder->decrypt != NULL
    last_buffer_number,
    stats,
    fec_queue,
    decompress_queue,
    msg_queue,
    registry,                \* the display's codecs, the line decoders and
                             \* the decompress modules available
    rcv,                     \* the receiver thread inside decode_video_frame
    fec,                     \* the FEC thread
    dec,                     \* the decompress/display thread
    stream,                  \* what the sender emits: the input of the run
    shown,                   \* ids of the messages submitted with display_put_frame
    oob,                     \* a worker indexed an array beyond its allocation
    lavcd,                   \* the libavcodec decompressors of the process and
                             \* the codec lock they share
    tile_tasks,              \* the tile tasks of decompress_thread: the index of
                             \* its start loop and the tasks that are running
    il                       \* interlacing: the modes the display supports, the
                             \* incoming mode, change_il and the display's mode

decoderVars == <<display, frame, frames_out, buffer_swapped, decoder_type, line_decoder,
                 decompress_state, accepts_corrupted_frame, received_vid_desc,
                 display_desc, native_codecs, out_codec, video_mode,
                 max_substreams, merged_fb, decrypt, last_buffer_number, stats>>
queueVars == <<fec_queue, decompress_queue, msg_queue>>
pipelineVars == <<decoderVars, queueVars, registry, rcv, fec, dec, stream, shown, oob,
                  tile_tasks, il>>
vars == <<pipelineVars, lavcd>>

NoDesc == <<0, VIDEO_CODEC_NONE, VIDEO_UNKNOWN>>

\* a state_libavcodec_decompress not yet allocated.  codec_ctx and frame are
\* "null", "alloc" (allocated), "open" (context opened) or "freed" (the
\* pointer still holds the address of memory given back with av_free); ok is
\* what configure_with returned and ret what the last reconfigure returned.
\* last_frame_seq is the field of that name, which libavcodec_decompress_init
\* leaves unset and nothing reads before configure_with has stored -1; log
\* lists the libavcodec_decompress calls since that store (up to the next
\* reconfigure or done), each with its frame_seq, its return value and the
\* picture types it wrote to dst
NoInstance ==
    [pc |-> "none", after |-> "", codec_ctx |-> "null", frame |-> "null",
     in_codec |-> VIDEO_CODEC_NONE, size |-> 0, ok |-> FALSE, ret |-> 0, calls |-> 0,
     last_frame_seq |-> 0, log |-> <<>>]

\* no decompressor exists, the codec lock is free (holder 0) and unreferenced
NoLavcd ==
    [lock |-> 0, refs |-> 0, crashed |-> FALSE,
     inst |-> [i \in Instances |-> NoInstance]]
PROGRESSIVE == "PROGRESSIVE"
UPPER_FIELD_FIRST == "UPPER_FIELD_FIRST"
LOWER_FIELD_FIRST == "LOWER_FIELD_FIRST"
INTERLACED_MERGED == "INTERLACED_MERGED"
Interlacings == {PROGRESSIVE, UPPER_FIELD_FIRST, LOWER_FIELD_FIRST, INTERLACED_MERGED}
\* a decoder whose display has reported no interlacing modes yet and that has
\* not been configured: change_il is NULL
NoIl == [supported |-> <<>>, in_il |-> PROGRESSIVE, change_il |-> "NULL",
         display_il |-> PROGRESSIVE, selected |-> FALSE]
\* no tile task started, none running
NoTasks == [started |-> 0, running |-> {}]
NoReq == [desc |-> 0, last_frame |-> NoMsg, force |-> FALSE]
NoPk == [pt |-> PT_UNKNOWN, substream |-> 0, pos |-> 0, len |-> 0, fmt |-> 0, k |-> 0,
         dec_ok |-> TRUE, cipher_ok |-> TRUE]

RcvIdle(calls, bn, ret, pushed, why) ==
    [pc |-> "idle", calls |-> calls, buffer_number |-> bn, npk |-> 0,
     swapped |-> FALSE, pt |-> PT_UNKNOWN, k |-> 0, tiles |-> <<>>, req |-> NoReq,
     retpc |-> "", pk |-> NoPk, msg |-> NoMsg, nfail |-> 0, acc |-> {},
     ret |-> ret, pushed |-> pushed, why |-> why]

\* a worker thread just started by video_decoder_start_threads
FecStarted == [pc |-> "pop", data |-> NoMsg, frame |-> 0, pos |-> 0,
               swapped |-> FALSE, desc |-> fec_desc(FEC_NONE, 0)]
DecStarted == [pc |-> "pop", msg |-> NoMsg, rets |-> <<>>]
\* a worker thread that has returned
FecExited == [FecStarted EXCEPT !.pc = "exited"]
DecExited == [DecStarted EXCEPT !.pc = "exited"]

\* display and registry of the pipeline runs
PipelineRegistry ==
    [native |-> <<"UYVY", "RGB">>, fast |-> {}, slow |-> {},
     ext |-> {<<"H264", "UYVY">>, <<"H264", "RGB">>}]
DisplayMerged == TRUE

\* the decoder with a display bound, before any configuration: video mode vm,
\* decryption dcr, display and registry reg, stream st, received descriptor
\* desc and the three threads at r, f and d
InitState(vm, dcr, reg, st, desc, r, f, d) ==
    /\ display = TRUE
    /\ frame = 0
    /\ frames_out = {}
    /\ buffer_swapped = TRUE
    /\ decoder_type = UNSET
    /\ line_decoder = 0
    /\ decompress_state = 0
    /\ accepts_corrupted_frame = FALSE
    /\ received_vid_desc = desc
    /\ display_desc = NoDesc
    /\ native_codecs = reg.native
    /\ out_codec = VIDEO_CODEC_NONE
    /\ video_mode = vm
    /\ max_substreams = VideoModeTiles(vm)
    /\ merged_fb = FALSE
    /\ decrypt = dcr
    /\ last_buffer_number = -1
    /\ stats = ZeroStats
    /\ fec_queue = <<>>
    /\ decompress_queue = <<>>
    /\ msg_queue = <<>>
    /\ registry = reg
    /\ rcv = r
    /\ fec = f
    /\ dec = d
    /\ stream = st
    /\ shown = <<>>
    /\ oob = FALSE
    /\ lavcd = NoLavcd
    /\ tile_tasks = NoTasks
    /\ il = NoIl

\* video_decoder_init: state after construction, display registered and
\* worker threads started
InitWith(vm, dcr, reg, st) ==
    InitState(vm, dcr, reg, st, 0, RcvIdle(0, -1, TRUE, FALSE, ""), FecStarted, DecStarted)

\* Streams: the payload types, formats, substream ids, packet lengths and
\* buffer-number gaps the sender uses, the number of buffers it sends, the
\* number of times the application still unbinds the display and the results
\* the decryptor's integrity check has for the stream's encrypted packets
\* and the offsets of its packets in their buffer
AnyStream ==
    [buffers |-> MaxBuffers - 1, pts |-> PayloadTypes, formats |-> Formats,
     substreams |-> {0, 1, 5}, lens |-> {1, 2}, skips |-> {0}, removals |-> 0,
     auth |-> BOOLEAN, offsets |-> {0}]
\* a compressed two-tile stream whose buffers arrive whole, some of them lost
TiledStream ==
    [buffers |-> MaxBuffers - 1, pts |-> {PT_VIDEO, PT_VIDEO_LDGM}, formats |-> {2},
     substreams |-> {0, 1}, lens |-> {BufLen}, skips |-> 0 .. MaxSkip,
     removals |-> MaxRemovals,
     auth |-> BOOLEAN, offsets |-> {0}]
\* a longer stream on substream 0 that mixes plain and FEC-bearing buffers
MixedStream ==
    [buffers |-> MaxBuffers, pts |-> {PT_VIDEO, PT_VIDEO_LDGM, PT_UNKNOWN},
     formats |-> Formats, substreams |-> {0}, lens |-> {BufLen}, skips |-> {0},
     removals |-> MaxRemovals,
     auth |-> BOOLEAN, offsets |-> {0}]

\* a display that takes UYVY only, in a build without decompress modules
LineOnlyRegistry == [native |-> <<"UYVY">>, fast |-> {}, slow |-> {}, ext |-> {}]

InitMixed ==
    InitWith(VIDEO_NORMAL, FALSE, LineOnlyRegistry, MixedStream)

Init ==
    \/ \E dcr \in BOOLEAN :
          InitWith(VIDEO_NORMAL, dcr, PipelineRegistry, AnyStream)
    \/ InitWith(VIDEO_STEREO, FALSE, PipelineRegistry, TiledStream)
    \/ InitMixed

----------------------------------------------------------------------------
(* Display (external): frames are handed out by display_get_frame *)

\* the display hands out its two buffers in turn
display_get_frame(held) == IF held = 1 THEN 2 ELSE 1

\* display_put_frame (any flag): the display has the frame back
display_put_frame(out, f) == out \ {f}

----------------------------------------------------------------------------
(* Receiver stage: decode_video_frame and what it calls *)

SubstreamIds == {0, 1, 2, 3, 5}
PktLens == {1, 2}

\* the packets a buffer may hold; fields a payload type does not carry are zero
Packets ==
    {[pt |-> PT_UNKNOWN, substream |-> 0, pos |-> 0, len |-> 0, fmt |-> 0, k |-> 0,
      dec_ok |-> TRUE, cipher_ok |-> TRUE]}
    \cup
    {[pt |-> pt, substream |-> s, pos |-> o, len |-> l,
      fmt |-> IF PT_VIDEO_HAS_FEC(pt) THEN 0 ELSE f,
      k |-> IF PT_VIDEO_HAS_FEC(pt) THEN k ELSE 0,
      dec_ok |-> IF PT_VIDEO_IS_ENCRYPTED(pt) THEN d ELSE TRUE,
      cipher_ok |-> IF PT_VIDEO_IS_ENCRYPTED(pt) THEN c ELSE TRUE] :
        pt \in AllPayloadTypes \ {PT_UNKNOWN}, s \in SubstreamIds, l \in PktLens,
        f \in Formats, k \in FecKs, d \in BOOLEAN, c \in BOOLEAN, o \in Offsets}

\* the packets of the stream st
StreamPackets(st) ==
    {pk \in Packets : /\ pk.pt \in st.pts
                      /\ pk.pt # PT_UNKNOWN =>
                            /\ pk.substream \in st.substreams
                            /\ pk.len \in st.lens
                            /\ pk.pos \in st.offsets
                            /\ pk.fmt \in st.formats \cup {0}
                            /\ PT_VIDEO_IS_ENCRYPTED(pk.pt) => pk.dec_ok \in st.auth}

\* a "cleanup:" that ends with "return TRUE" instead of "return ret"
RcvCleanupReturnsTrue(ret, pushed, why) ==
    /\ stats' = [stats EXCEPT
                   !.missing = @ + MissingIncrement(last_buffer_number, rcv.buffer_number)]
    /\ last_buffer_number' = rcv.buffer_number
    /\ rcv' = RcvIdle(rcv.calls, rcv.buffer_number, TRUE, pushed, why)

\* "cleanup:" of decode_video_frame: the missing counter, last_buffer_number
\* and the return
RcvCleanup(ret, pushed, why) ==
    /\ stats' = [stats EXCEPT
                   !.missing = @ + MissingIncrement(last_buffer_number, rcv.buffer_number)]
    /\ last_buffer_number' = rcv.buffer_number
    /\ rcv' = RcvIdle(rcv.calls, rcv.buffer_number, ret, pushed, why)

\* "return FALSE" before the cleanup label
RcvReturnEarly(why) ==
    /\ rcv' = RcvIdle(rcv.calls, rcv.buffer_number, FALSE, FALSE, why)
    /\ UNCHANGED <<stats, last_buffer_number>>

\* an entry of decode_video_frame without the check "if(!decoder->display)"
DecodeVideoFrameUnbound ==
    /\ rcv.pc = "idle"
    /\ rcv.calls < stream.buffers
    /\ \E skip \in stream.skips :
         LET bn == (rcv.buffer_number + 1 + skip) % (BufferMask + 1)
         IN rcv' = [RcvIdle(rcv.calls + 1, bn, TRUE, FALSE, "") EXCEPT
                      !.pc = "drain",
                      !.tiles = [i \in 1 .. max_substreams |-> EmptyTile]]
    /\ UNCHANGED <<decoderVars, queueVars, registry, il, lavcd, tile_tasks, fec, dec, stream, shown, oob>>

\* entry of decode_video_frame for the next buffer on the wire
DecodeVideoFrame ==
    /\ rcv.pc = "idle"
    /\ rcv.calls < stream.buffers
    /\ \E skip \in stream.skips :
         LET bn == (rcv.buffer_number + 1 + skip) % (BufferMask + 1)
         IN IF ~display
            THEN rcv' = RcvIdle(rcv.calls + 1, bn, FALSE, FALSE, "no_display")
            ELSE rcv' = [RcvIdle(rcv.calls + 1, bn, TRUE, FALSE, "") EXCEPT
                           !.pc = "drain",
                           !.tiles = [i \in 1 .. max_substreams |-> EmptyTile]]
    /\ UNCHANGED <<decoderVars, queueVars, registry, il, lavcd, tile_tasks, fec, dec, stream, shown, oob>>

\* a reconfigure_if_needed that reconfigures for every descriptor it is given
reconfigure_always(network_desc, force) == TRUE

\* reconfigure_if_needed up to the call of reconfigure_decoder: whether the
\* decoder is to be reconfigured for network_desc
reconfigure_needed(network_desc, force) ==
    received_vid_desc # network_desc \/ force

\* one turn of "while ((msg_reconf = decoder->msg_queue.pop(true)))"
RcvDrain ==
    /\ rcv.pc = "drain"
    /\ IF msg_queue = <<>>
       THEN /\ rcv' = [rcv EXCEPT !.pc = "pkt"]
            /\ UNCHANGED <<msg_queue, received_vid_desc>>
       ELSE LET r == Head(msg_queue)
            IN /\ msg_queue' = Tail(msg_queue)
               /\ IF reconfigure_needed(r.desc, r.force)
                  THEN /\ received_vid_desc' = r.desc
                       /\ rcv' = [rcv EXCEPT !.pc = "stop", !.retpc = "replay", !.req = r]
                  ELSE /\ rcv' = [rcv EXCEPT !.pc = "replay", !.req = r]
                       /\ UNCHANGED received_vid_desc
    /\ UNCHANGED <<display, frame, frames_out,
                   buffer_swapped, decoder_type, line_decoder,
                   decompress_state, accepts_corrupted_frame, display_desc,
                   native_codecs, out_codec, video_mode, max_substreams, merged_fb,
                   decrypt, last_buffer_number, stats, fec_queue, decompress_queue,
                   registry, il, lavcd, tile_tasks, fec, dec, stream, shown, oob>>

\* "if (msg_reconf->last_frame) fec_queue.push(move(last_frame)); delete msg_reconf"
RcvReplay ==
    /\ rcv.pc = "replay"
    /\ IF rcv.req.last_frame # NoMsg
       THEN /\ QCanPush(fec_queue, fec_queue_max_len)
            /\ fec_queue' = QPush(fec_queue, rcv.req.last_frame)
       ELSE UNCHANGED fec_queue
    /\ rcv' = [rcv EXCEPT !.pc = "drain", !.req = NoReq]
    /\ UNCHANGED <<decoderVars, decompress_queue, msg_queue, registry, il, lavcd, tile_tasks, fec, dec,
                   stream, shown, oob>>

\* video_decoder_stop_threads: push of the poison message
RcvStopThreads ==
    /\ rcv.pc = "stop"
    /\ QCanPush(fec_queue, fec_queue_max_len)
    /\ fec_queue' = QPush(fec_queue, PoisonMsg)
    /\ rcv' = [rcv EXCEPT !.pc = "join"]
    /\ UNCHANGED <<decoderVars, decompress_queue, msg_queue, registry, il, lavcd, tile_tasks, fec, dec,
                   stream, shown, oob>>

\* a reconfigure_decoder that does not store the descriptor the display was
\* reconfigured to
reconfigure_decoder_desc_lost(desc, acc, disp_ok, dcmp_ok) ==
    LET c == choose_codec_and_decoder(native_codecs, FormatCodec(desc), video_mode,
                                      registry, max_substreams, acc,
                                      accepts_corrupted_frame)
        dd == <<desc, c.out_codec, video_mode>>
        failed == [ok |-> FALSE, decoder_type |-> c.decoder_type, line_decoder |-> 0,
                   decompress_state |-> c.decompress_state,
                   accepts_corrupted_frame |-> c.accepts_corrupted_frame,
                   out_codec |-> out_codec, display_desc |-> display_desc,
                   merged_fb |-> merged_fb]
    IN IF c.out_codec = VIDEO_CODEC_NONE THEN failed
       ELSE IF display_desc # dd /\ ~disp_ok
            THEN [failed EXCEPT !.out_codec = c.out_codec]
       ELSE IF c.decoder_type = LINE_DECODER
            THEN [failed EXCEPT !.ok = TRUE, !.out_codec = c.out_codec,
                                !.line_decoder = VideoModeTiles(video_mode),
                                !.merged_fb = DisplayMerged]
       ELSE IF ~dcmp_ok
            THEN [failed EXCEPT !.out_codec = c.out_codec]
            ELSE [failed EXCEPT !.ok = TRUE, !.out_codec = c.out_codec,
                                !.merged_fb = DisplayMerged]

\* reconfigure_decoder after the pipeline was flushed: cleanup, codec and
\* decoder selection, display reconfiguration, line decoder / decompressor
\* setup.  acc, disp_ok and dcmp_ok are the answers of the decompressor
\* property query, display_reconfigure and decompress_reconfigure.
reconfigure_decoder(desc, acc, disp_ok, dcmp_ok) ==
    LET c == choose_codec_and_decoder(native_codecs, FormatCodec(desc), video_mode,
                                      registry, max_substreams, acc,
                                      accepts_corrupted_frame)
        dd == <<desc, c.out_codec, video_mode>>
        failed == [ok |-> FALSE, decoder_type |-> c.decoder_type, line_decoder |-> 0,
                   decompress_state |-> c.decompress_state,
                   accepts_corrupted_frame |-> c.accepts_corrupted_frame,
                   out_codec |-> out_codec, display_desc |-> display_desc,
                   merged_fb |-> merged_fb]
    IN IF c.out_codec = VIDEO_CODEC_NONE THEN failed
       ELSE IF display_desc # dd /\ ~disp_ok
            THEN [failed EXCEPT !.out_codec = c.out_codec]
       ELSE IF c.decoder_type = LINE_DECODER
            THEN [failed EXCEPT !.ok = TRUE, !.out_codec = c.out_codec,
                                !.display_desc = dd,
                                !.line_decoder = VideoModeTiles(video_mode),
                                !.merged_fb = DisplayMerged]
       ELSE IF ~dcmp_ok
            THEN [failed EXCEPT !.out_codec = c.out_codec, !.display_desc = dd]
            ELSE [failed EXCEPT !.ok = TRUE, !.out_codec = c.out_codec,
                                !.display_desc = dd, !.merged_fb = DisplayMerged]

\* reconfigure_if_needed from the join of video_decoder_stop_threads on: the
\* flushed workers are joined, the held frame is discarded, new workers are
\* started and the decoder is set up for received_vid_desc
RcvReconfigure ==
    /\ rcv.pc = "join"
    /\ rcv.retpc \in {"replay", "body"}
    /\ fec.pc = "exited"
    /\ dec.pc = "exited"
    /\ \E acc \in BOOLEAN, disp_ok \in BOOLEAN, dcmp_ok \in BOOLEAN :
         LET r == reconfigure_decoder(received_vid_desc, acc, disp_ok, dcmp_ok)
         IN /\ decoder_type' = r.decoder_type
            /\ line_decoder' = r.line_decoder
            /\ decompress_state' = r.decompress_state
            /\ accepts_corrupted_frame' = r.accepts_corrupted_frame
            /\ out_codec' = r.out_codec
            /\ display_desc' = r.display_desc
            /\ merged_fb' = r.merged_fb
            /\ IF r.ok
               THEN /\ frame' = display_get_frame(frame)
                    /\ frames_out' = display_put_frame(frames_out, frame)
                                         \cup {display_get_frame(frame)}
               ELSE /\ frame' = 0
                    /\ frames_out' = display_put_frame(frames_out, frame)
    /\ fec' = FecStarted
    /\ dec' = DecStarted
    /\ rcv' = [rcv EXCEPT !.pc = rcv.retpc, !.retpc = ""]
    /\ UNCHANGED <<display, buffer_swapped, received_vid_desc, native_codecs,
                   video_mode, max_substreams, decrypt, last_buffer_number, stats,
                   queueVars, registry, il, lavcd, tile_tasks, stream, shown, oob>>

\* video_decoder_remove_display, called between two buffers: the poison is
\* pushed by RcvStopThreads
RemoveDisplay ==
    /\ rcv.pc = "idle"
    /\ display
    /\ stream.removals > 0
    /\ stream' = [stream EXCEPT !.removals = @ - 1]
    /\ rcv' = [rcv EXCEPT !.pc = "stop", !.retpc = "remove"]
    /\ UNCHANGED <<decoderVars, queueVars, registry, il, lavcd, tile_tasks, fec, dec, shown, oob>>

\* a video_decoder_remove_display that forgets the held frame without
\* display_put_frame
RcvDisplayRemovedNoPut ==
    /\ rcv.pc = "join"
    /\ rcv.retpc = "remove"
    /\ fec.pc = "exited"
    /\ dec.pc = "exited"
    /\ frame' = 0
    /\ frames_out' = frames_out
    /\ display' = FALSE
    /\ display_desc' = NoDesc
    /\ rcv' = [rcv EXCEPT !.pc = "idle", !.retpc = ""]
    /\ UNCHANGED <<buffer_swapped, decoder_type, line_decoder, decompress_state,
                   accepts_corrupted_frame, received_vid_desc, native_codecs,
                   out_codec, video_mode, max_substreams, merged_fb, decrypt,
                   last_buffer_number, stats, queueVars, registry, il, lavcd, tile_tasks, fec, dec,
                   stream, shown, oob>>

\* video_decoder_remove_display after the join: the held frame is discarded
\* and the display unbound
RcvDisplayRemoved ==
    /\ rcv.pc = "join"
    /\ rcv.retpc = "remove"
    /\ fec.pc = "exited"
    /\ dec.pc = "exited"
    /\ frame' = 0
    /\ frames_out' = display_put_frame(frames_out, frame)
    /\ display' = FALSE
    /\ display_desc' = NoDesc
    /\ rcv' = [rcv EXCEPT !.pc = "idle", !.retpc = ""]
    /\ UNCHANGED <<buffer_swapped, decoder_type, line_decoder, decompress_state,
                   accepts_corrupted_frame, received_vid_desc, native_codecs,
                   out_codec, video_mode, max_substreams, merged_fb, decrypt,
                   last_buffer_number, stats, queueVars, registry, il, lavcd, tile_tasks, fec, dec,
                   stream, shown, oob>>

\* video_decoder_register_display: the display's codecs are read and the
\* worker threads started
RegisterDisplay ==
    /\ rcv.pc = "idle"
    /\ ~display
    /\ display' = TRUE
    /\ native_codecs' = registry.native
    /\ fec' = FecStarted
    /\ dec' = DecStarted
    /\ UNCHANGED <<frame, frames_out, buffer_swapped, decoder_type, line_decoder,
                   decompress_state, accepts_corrupted_frame, received_vid_desc,
                   display_desc, out_codec, video_mode, max_substreams, merged_fb,
                   decrypt, last_buffer_number, stats, queueVars, registry, il, lavcd, tile_tasks, rcv,
                   stream, shown, oob>>

\* a packet as the bookkeeping of the loop sees it
Accepted(pk) == <<pk.substream, pk.pos, pk.len>>

\* the receiver's frame after recording a packet: buffer length and packet map
RecordPacket(tiles, pk) ==
    [tiles EXCEPT ![pk.substream + 1] =
        [@ EXCEPT !.data_len = BufLen, !.pckt_list[pk.pos] = pk.len]]

\* a loop turn without the check "if (decoder->frame == NULL) return FALSE"
RcvBodyUnchecked(pk) ==
    /\ UNCHANGED <<stats, last_buffer_number>>
    /\ LET t == RecordPacket(rcv.tiles, pk)
       IN IF pk.pt \in {PT_VIDEO, PT_ENCRYPT_VIDEO} /\ decoder_type = LINE_DECODER
          THEN rcv' = [rcv EXCEPT !.tiles = t, !.pk = NoPk, !.pt = pk.pt, !.acc = @ \cup {Accepted(pk)},
                                  !.npk = @ + 1,
                                  !.pc = IF rcv.swapped THEN "pkt" ELSE "wait"]
          ELSE rcv' = [rcv EXCEPT !.tiles = [t EXCEPT ![pk.substream + 1].data = TRUE],
                                  !.pk = NoPk, !.pt = pk.pt, !.acc = @ \cup {Accepted(pk)}, !.npk = @ + 1,
                                  !.k = IF PT_VIDEO_HAS_FEC(pk.pt) THEN pk.k ELSE @,
                                  !.pc = "pkt"]

\* the rest of a loop turn of decode_video_frame from "if (!PT_VIDEO_HAS_FEC(pt))"
\* after check_for_mode_change: the frame check, the bookkeeping and the
\* dispatch on the decoder type
RcvBody(pk) ==
    IF ~PT_VIDEO_HAS_FEC(pk.pt) /\ frame = 0
    THEN RcvReturnEarly("no_frame")
    ELSE /\ UNCHANGED <<stats, last_buffer_number>>
         /\ LET t == RecordPacket(rcv.tiles, pk)
            IN IF pk.pt \in {PT_VIDEO, PT_ENCRYPT_VIDEO} /\ decoder_type = LINE_DECODER
               THEN rcv' = [rcv EXCEPT !.tiles = t, !.pk = NoPk, !.pt = pk.pt, !.acc = @ \cup {Accepted(pk)},
                                       !.npk = @ + 1,
                                       !.pc = IF rcv.swapped THEN "pkt" ELSE "wait"]
               ELSE rcv' = [rcv EXCEPT !.tiles = [t EXCEPT ![pk.substream + 1].data = TRUE],
                                       !.pk = NoPk, !.pt = pk.pt, !.acc = @ \cup {Accepted(pk)}, !.npk = @ + 1,
                                       !.k = IF PT_VIDEO_HAS_FEC(pk.pt) THEN pk.k ELSE @,
                                       !.pc = "pkt"]

\* a loop turn that records a packet although its decryption returned 0
RcvPacketAuthRecorded ==
    /\ rcv.pc = "pkt"
    /\ rcv.npk < MaxPkts
    /\ \E pk \in StreamPackets(stream) :
         LET n == Len(rcv.tiles)
         IN IF PT_VIDEO_IS_ENCRYPTED(pk.pt) # decrypt
            THEN /\ RcvCleanup(FALSE, FALSE, "enc_mismatch")
                 /\ UNCHANGED <<received_vid_desc, video_mode, max_substreams>>
            ELSE IF pk.pt = PT_UNKNOWN
            THEN /\ RcvCleanup(FALSE, FALSE, "unknown_pt")
                 /\ UNCHANGED <<received_vid_desc, video_mode, max_substreams>>
            ELSE IF ~pk.cipher_ok
            THEN /\ RcvCleanup(FALSE, FALSE, "unknown_cipher")
                 /\ UNCHANGED <<received_vid_desc, video_mode, max_substreams>>
            ELSE IF pk.substream >= n
            THEN LET vm == guess_video_mode(pk.substream + 1)
                 IN /\ RcvCleanup(FALSE, FALSE, "substream")
                    /\ IF vm # VIDEO_UNKNOWN
                       THEN /\ video_mode' = vm
                            /\ max_substreams' = VideoModeTiles(vm)
                            /\ received_vid_desc' = ZeroWidth(received_vid_desc)
                       ELSE UNCHANGED <<received_vid_desc, video_mode, max_substreams>>
            ELSE IF ~pk.dec_ok
            THEN /\ rcv' = [rcv EXCEPT !.npk = @ + 1, !.pt = pk.pt, !.nfail = @ + 1,
                                         !.tiles = RecordPacket(rcv.tiles, pk),
                                         !.k = IF PT_VIDEO_HAS_FEC(pk.pt) THEN pk.k ELSE @]
                 /\ UNCHANGED <<received_vid_desc, video_mode, max_substreams,
                                stats, last_buffer_number>>
            ELSE IF ~PT_VIDEO_HAS_FEC(pk.pt) /\ reconfigure_needed(pk.fmt, FALSE)
            THEN /\ received_vid_desc' = pk.fmt
                 /\ rcv' = [rcv EXCEPT !.pc = "stop", !.retpc = "body", !.pk = pk]
                 /\ UNCHANGED <<video_mode, max_substreams, stats, last_buffer_number>>
            ELSE /\ RcvBody(pk)
                 /\ UNCHANGED <<received_vid_desc, video_mode, max_substreams>>
    /\ UNCHANGED <<display, frame, frames_out,
                   buffer_swapped, decoder_type, line_decoder,
                   decompress_state, accepts_corrupted_frame, display_desc,
                   native_codecs, out_codec, merged_fb, decrypt,
                   queueVars, registry, il, lavcd, tile_tasks, fec, dec, stream, shown, oob>>

\* one packet of the buffer, up to the point where the loop turn blocks
RcvPacket ==
    /\ rcv.pc = "pkt"
    /\ rcv.npk < MaxPkts
    /\ \E pk \in StreamPackets(stream) :
         LET n == Len(rcv.tiles)
         IN IF PT_VIDEO_IS_ENCRYPTED(pk.pt) # decrypt
            THEN /\ RcvCleanup(FALSE, FALSE, "enc_mismatch")
                 /\ UNCHANGED <<received_vid_desc, video_mode, max_substreams>>
            ELSE IF pk.pt = PT_UNKNOWN
            THEN /\ RcvCleanup(FALSE, FALSE, "unknown_pt")
                 /\ UNCHANGED <<received_vid_desc, video_mode, max_substreams>>
            ELSE IF ~pk.cipher_ok
            THEN /\ RcvCleanup(FALSE, FALSE, "unknown_cipher")
                 /\ UNCHANGED <<received_vid_desc, video_mode, max_substreams>>
            ELSE IF pk.substream >= n
            THEN LET vm == guess_video_mode(pk.substream + 1)
                 IN /\ RcvCleanup(FALSE, FALSE, "substream")
                    /\ IF vm # VIDEO_UNKNOWN
                       THEN /\ video_mode' = vm
                            /\ max_substreams' = VideoModeTiles(vm)
                            /\ received_vid_desc' = ZeroWidth(received_vid_desc)
                       ELSE UNCHANGED <<received_vid_desc, video_mode, max_substreams>>
            ELSE IF ~pk.dec_ok
            THEN /\ rcv' = [rcv EXCEPT !.npk = @ + 1, !.pt = pk.pt, !.nfail = @ + 1,
                                         !.k = IF PT_VIDEO_HAS_FEC(pk.pt) THEN pk.k ELSE @]
                 /\ UNCHANGED <<received_vid_desc, video_mode, max_substreams,
                                stats, last_buffer_number>>
            ELSE IF ~PT_VIDEO_HAS_FEC(pk.pt) /\ reconfigure_needed(pk.fmt, FALSE)
            THEN /\ received_vid_desc' = pk.fmt
                 /\ rcv' = [rcv EXCEPT !.pc = "stop", !.retpc = "body", !.pk = pk]
                 /\ UNCHANGED <<video_mode, max_substreams, stats, last_buffer_number>>
            ELSE /\ RcvBody(pk)
                 /\ UNCHANGED <<received_vid_desc, video_mode, max_substreams>>
    /\ UNCHANGED <<display, frame, frames_out,
                   buffer_swapped, decoder_type, line_decoder,
                   decompress_state, accepts_corrupted_frame, display_desc,
                   native_codecs, out_codec, merged_fb, decrypt,
                   queueVars, registry, il, lavcd, tile_tasks, fec, dec, stream, shown, oob>>

\* the loop turn continues after a reconfiguration triggered by its packet
RcvPacketBody ==
    /\ rcv.pc = "body"
    /\ RcvBody(rcv.pk)
    /\ UNCHANGED <<display, frame, frames_out,
                   buffer_swapped, decoder_type, line_decoder,
                   decompress_state, accepts_corrupted_frame, received_vid_desc,
                   display_desc, native_codecs, out_codec, video_mode,
                   max_substreams, merged_fb, decrypt,
                   queueVars, registry, il, lavcd, tile_tasks, fec, dec, stream, shown, oob>>

\* wait_for_framebuffer_swap returns once buffer_swapped is seen true
RcvWaitSwap ==
    /\ rcv.pc = "wait"
    /\ buffer_swapped
    /\ rcv' = [rcv EXCEPT !.pc = "claim"]
    /\ UNCHANGED <<decoderVars, queueVars, registry, il, lavcd, tile_tasks, fec, dec, stream, shown, oob>>

\* "buffer_swapped = true; lk(decoder->lock); decoder->buffer_swapped = false"
\* and the line decoding of the packet into decoder->frame
RcvClaim ==
    /\ rcv.pc = "claim"
    /\ buffer_swapped' = FALSE
    /\ rcv' = [rcv EXCEPT !.pc = "pkt", !.swapped = TRUE]
    /\ UNCHANGED <<display, frame, frames_out,
                   decoder_type, line_decoder,
                   decompress_state, accepts_corrupted_frame, received_vid_desc,
                   display_desc, native_codecs, out_codec, video_mode,
                   max_substreams, merged_fb, decrypt, last_buffer_number, stats,
                   queueVars, registry, il, lavcd, tile_tasks, fec, dec, stream, shown, oob>>

TileIncomplete(t) == t.data_len # sum_map(t.pckt_list)

\* after the last packet: the checks and the construction of the frame_msg
RcvEndOfList ==
    /\ rcv.pc = "pkt"
    /\ IF rcv.npk = 0
       THEN RcvReturnEarly("empty")
       ELSE IF frame = 0 /\ rcv.pt \in {PT_VIDEO, PT_ENCRYPT_VIDEO}
       THEN RcvCleanup(FALSE, FALSE, "no_frame")
       ELSE /\ UNCHANGED <<stats, last_buffer_number>>
            /\ \E f \in stream.formats, rec \in BOOLEAN :
                 LET ft == fec_type_from_pt(rcv.pt)
                     lossy == \E i \in 1 .. Len(rcv.tiles) : TileIncomplete(rcv.tiles[i])
                 IN rcv' = [rcv EXCEPT
                              !.pc = "push",
                              !.msg = [id |-> rcv.calls, poison |-> FALSE,
                                       fec |-> fec_desc(ft, rcv.k),
                                       fmt |-> IF ft = FEC_NONE THEN 0 ELSE f,
                                       rec |-> IF ft # FEC_NONE /\ lossy THEN rec ELSE TRUE,
                                       tiles |-> rcv.tiles,
                                       buffer_num |-> rcv.buffer_number,
                                       is_corrupted |-> FALSE,
                                       is_displayed |-> FALSE]]
    /\ UNCHANGED <<display, frame, frames_out,
                   buffer_swapped, decoder_type, line_decoder,
                   decompress_state, accepts_corrupted_frame, received_vid_desc,
                   display_desc, native_codecs, out_codec, video_mode,
                   max_substreams, merged_fb, decrypt,
                   queueVars, registry, il, lavcd, tile_tasks, fec, dec, stream, shown, oob>>

\* "decoder->fec_queue.push(move(fec_msg))" and the return through cleanup
RcvPush ==
    /\ rcv.pc = "push"
    /\ QCanPush(fec_queue, fec_queue_max_len)
    /\ fec_queue' = QPush(fec_queue, rcv.msg)
    /\ RcvCleanup(TRUE, TRUE, "")
    /\ UNCHANGED <<display, frame, frames_out,
                   buffer_swapped, decoder_type, line_decoder,
                   decompress_state, accepts_corrupted_frame, received_vid_desc,
                   display_desc, native_codecs, out_codec, video_mode,
                   max_substreams, merged_fb, decrypt,
                   decompress_queue, msg_queue, registry, il, lavcd, tile_tasks, fec, dec, stream, shown, oob>>

----------------------------------------------------------------------------
(* FEC stage: fec_thread *)

\* the FEC descriptor in use after a message with fec_params p was taken:
\* the state is recreated when there is none or k, m, c or seed differ
fec_state_desc(cur, p) ==
    IF p.type # FEC_NONE /\ (cur.type = FEC_NONE \/ cur.k # p.k) THEN p ELSE cur

\* a PT_VIDEO branch that forgets to flag an incomplete tile
NoFecOutcomeUnflagged(m, g) ==
    [is_corrupted |-> FALSE, dropped |-> FALSE,
     oob |-> \E i \in 1 .. max_substreams : i > Len(m.tiles)]

\* a PT_VIDEO branch that flags an incomplete tile and never leaves the loop
NoFecOutcomeNeverDropped(m, g) ==
    LET n == Len(m.tiles)
        bad(i) == IF i <= n THEN TileIncomplete(m.tiles[i]) ELSE g
    IN [is_corrupted |-> \E i \in 1 .. max_substreams : bad(i),
        dropped |-> FALSE,
        oob |-> \E i \in 1 .. max_substreams : i > n]

\* the PT_VIDEO branch: tiles are aliased and checked for completeness.
\* Its outcome: whether the message is flagged corrupted and whether it is
\* dropped; g is what a read beyond the message's tiles finds.
NoFecOutcome(m, g) ==
    LET n == Len(m.tiles)
        bad(i) == IF i <= n THEN TileIncomplete(m.tiles[i]) ELSE g
        first == {i \in 1 .. max_substreams :
                    bad(i) /\ \A j \in 1 .. (i - 1) : ~bad(j)}
        drops == decoder_type = EXTERNAL_DECODER /\ ~accepts_corrupted_frame
    IN [is_corrupted |-> first # {},
        dropped |-> first # {} /\ drops,
        oob |-> \E i \in 1 .. max_substreams :
                   i > n /\ (~drops \/ \A j \in 1 .. (i - 1) : ~bad(j))]

\* "data = fec_queue.pop()" and the work up to the tile loop
FecPop ==
    /\ fec.pc = "pop"
    /\ QCanPop(fec_queue)
    /\ fec_queue' = QPop(fec_queue)
    /\ LET m == QFront(fec_queue)
       IN IF m.poison
          THEN /\ fec' = [fec EXCEPT !.pc = "poison", !.data = m]
               /\ UNCHANGED <<stats, oob>>
          ELSE IF m.fec.type # FEC_NONE
          THEN /\ fec' = [fec EXCEPT !.pc = "tile", !.data = m, !.frame = frame,
                                     !.pos = 0, !.swapped = FALSE,
                                     !.desc = fec_state_desc(fec.desc, m.fec)]
               /\ UNCHANGED <<stats, oob>>
          ELSE \E g \in BOOLEAN :
                 LET o == NoFecOutcome(m, g)
                     m2 == [m EXCEPT !.is_corrupted = o.is_corrupted]
                 IN /\ oob' = (oob \/ o.oob)
                    /\ IF o.dropped
                       THEN /\ stats' = frame_msg_dtor(stats, m2)
                            /\ UNCHANGED fec
                       ELSE /\ fec' = [fec EXCEPT !.pc = "push", !.data = m2]
                            /\ UNCHANGED stats
    /\ UNCHANGED <<display, frame, frames_out,
                   buffer_swapped, decoder_type, line_decoder,
                   decompress_state, accepts_corrupted_frame, received_vid_desc,
                   display_desc, native_codecs, out_codec, video_mode,
                   max_substreams, merged_fb, decrypt, last_buffer_number,
                   decompress_queue, msg_queue, registry, il, lavcd, tile_tasks, rcv, dec, stream, shown>>

\* what fec_state->decode returns for tile t of message m: zero length when
\* the tile cannot be reconstructed
FecDecodeFails(m, t) == ~t.data \/ (TileIncomplete(t) /\ ~m.rec)

\* the FEC thread goes on with the next tile, or leaves the loop
FecAdvance(f) ==
    IF f.pos + 1 < VideoModeTiles(video_mode)
    THEN [f EXCEPT !.pos = @ + 1, !.pc = "tile"]
    ELSE [f EXCEPT !.pos = @ + 1, !.pc = "push"]

FecIdle(f) ==
    [f EXCEPT !.pc = "pop", !.data = NoMsg, !.frame = 0, !.pos = 0, !.swapped = FALSE]

\* one turn of the tile loop of a FEC-bearing message, up to the wait for the
\* framebuffer
FecTile ==
    /\ fec.pc = "tile"
    /\ \E gz \in BOOLEAN, gh \in Formats :
         LET m == fec.data
             inb == fec.pos < Len(m.tiles)
             zero == IF inb THEN FecDecodeFails(m, m.tiles[fec.pos + 1]) ELSE gz
             hdr == IF inb THEN m.fmt ELSE gh
         IN /\ oob' = (oob \/ ~inb
                           \/ (~zero /\ hdr = received_vid_desc /\ fec.frame # 0
                               /\ decoder_type # EXTERNAL_DECODER
                               /\ fec.pos >= line_decoder))
            /\ IF zero
               THEN /\ stats' = frame_msg_dtor(stats, [m EXCEPT !.is_corrupted = TRUE])
                    /\ fec' = FecIdle(fec)
                    /\ UNCHANGED msg_queue
               ELSE IF hdr # received_vid_desc
               THEN /\ msg_queue' = Append(msg_queue,
                                           [desc |-> hdr, last_frame |-> m, force |-> FALSE])
                    /\ fec' = FecIdle(fec)
                    /\ UNCHANGED stats
               ELSE IF fec.frame = 0
               THEN /\ stats' = frame_msg_dtor(stats, m)
                    /\ fec' = FecIdle(fec)
                    /\ UNCHANGED msg_queue
               ELSE IF decoder_type = EXTERNAL_DECODER
               THEN /\ fec' = FecAdvance(fec)
                    /\ UNCHANGED <<stats, msg_queue>>
               ELSE /\ fec' = IF fec.swapped THEN FecAdvance(fec)
                                             ELSE [fec EXCEPT !.pc = "wait"]
                    /\ UNCHANGED <<stats, msg_queue>>
    /\ UNCHANGED <<display, frame, frames_out,
                   buffer_swapped, decoder_type, line_decoder,
                   decompress_state, accepts_corrupted_frame, received_vid_desc,
                   display_desc, native_codecs, out_codec, video_mode,
                   max_substreams, merged_fb, decrypt, last_buffer_number,
                   fec_queue, decompress_queue, registry, il, lavcd, tile_tasks, rcv, dec, stream, shown>>

\* wait_for_framebuffer_swap returns in the FEC thread
FecWaitSwap ==
    /\ fec.pc = "wait"
    /\ buffer_swapped
    /\ fec' = [fec EXCEPT !.pc = "claim"]
    /\ UNCHANGED <<decoderVars, queueVars, registry, il, lavcd, tile_tasks, rcv, dec, stream, shown, oob>>

\* "lk(decoder->lock); decoder->buffer_swapped = false" and the line decoding
\* of the recovered tile into the frame read at the pop
FecClaim ==
    /\ fec.pc = "claim"
    /\ buffer_swapped' = FALSE
    /\ fec' = FecAdvance([fec EXCEPT !.swapped = TRUE])
    /\ UNCHANGED <<display, frame, frames_out,
                   decoder_type, line_decoder,
                   decompress_state, accepts_corrupted_frame, received_vid_desc,
                   display_desc, native_codecs, out_codec, video_mode,
                   max_substreams, merged_fb, decrypt, last_buffer_number, stats,
                   queueVars, registry, il, lavcd, tile_tasks, rcv, dec, stream, shown, oob>>

\* "decoder->decompress_queue.push(move(data))"
FecPush ==
    /\ fec.pc = "push"
    /\ QCanPush(decompress_queue, decompress_queue_max_len)
    /\ decompress_queue' = QPush(decompress_queue, fec.data)
    /\ fec' = FecIdle(fec)
    /\ UNCHANGED <<decoderVars, fec_queue, msg_queue, registry, il, lavcd, tile_tasks, rcv, dec,
                   stream, shown, oob>>

\* the poison message is forwarded and the thread ends
FecPoison ==
    /\ fec.pc = "poison"
    /\ QCanPush(decompress_queue, decompress_queue_max_len)
    /\ decompress_queue' = QPush(decompress_queue, fec.data)
    /\ fec' = FecExited
    /\ UNCHANGED <<decoderVars, fec_queue, msg_queue, registry, il, lavcd, tile_tasks, rcv, dec,
                   stream, shown, oob>>

----------------------------------------------------------------------------
(* Decompress/display stage: decompress_thread *)

\* the first tile whose decompress result is not DECODER_GOT_FRAME, 0 if none
\* ("for (pos...) if (data[pos].ret != DECODER_GOT_FRAME) ... goto skip_frame")
FirstNotGot(rets) ==
    LET S == {i \in DOMAIN rets : rets[i] # DECODER_GOT_FRAME}
    IN IF S = {} THEN 0 ELSE CHOOSE i \in S : \A j \in S : i <= j

\* whether the loop over the tile results blacklists the output codec
BlacklistTriggered(rets) ==
    FirstNotGot(rets) # 0 /\ rets[FirstNotGot(rets)] = DECODER_CANT_DECODE

\* whether nofec_frame->tiles[pos].data is set for the decompress worker
NofecData(m, i) ==
    IF i > Len(m.tiles) THEN FALSE
    ELSE IF m.fec.type = FEC_NONE THEN m.tiles[i].data ELSE TRUE

\* the results the tile tasks of message m may deliver: a worker whose tile
\* has no data returns without decoding (DECODER_NO_FRAME)
TileResults(m, tile_count) ==
    {r \in [1 .. tile_count -> DecompressStatus] :
        \A i \in 1 .. tile_count : ~NofecData(m, i) => r[i] = DECODER_NO_FRAME}

\* "msg = decompress_queue.pop()", the decompression of the tiles and the
\* inspection of their results
DecPop ==
    /\ dec.pc = "pop"
    /\ QCanPop(decompress_queue)
    /\ decompress_queue' = QPop(decompress_queue)
    /\ LET m == QFront(decompress_queue)
           tile_count == VideoModeTiles(video_mode)
       IN IF m.poison
          THEN /\ dec' = DecExited
               /\ UNCHANGED <<native_codecs, out_codec, msg_queue, oob>>
          ELSE IF decoder_type = EXTERNAL_DECODER
          THEN /\ oob' = (oob \/ tile_count > Len(m.tiles) \/ tile_count > decompress_state)
               /\ \E rets \in TileResults(m, tile_count) :
                    IF FirstNotGot(rets) = 0
                    THEN /\ dec' = [dec EXCEPT !.pc = "display", !.msg = m,
                                                !.rets = rets]
                         /\ UNCHANGED <<native_codecs, out_codec, msg_queue>>
                    ELSE /\ dec' = [dec EXCEPT !.pc = "swap", !.msg = m,
                                                !.rets = rets]
                         /\ IF BlacklistTriggered(rets)
                            THEN /\ native_codecs' = blacklist_native(native_codecs, out_codec)
                                 /\ out_codec' =
                                      IF \E i \in 1 .. Len(native_codecs) :
                                             native_codecs[i] = out_codec
                                      THEN VIDEO_CODEC_NONE ELSE out_codec
                                 /\ IF out_codec # VIDEO_CODEC_NONE
                                    THEN msg_queue' = Append(msg_queue,
                                             [desc |-> received_vid_desc,
                                              last_frame |-> NoMsg, force |-> TRUE])
                                    ELSE UNCHANGED msg_queue
                            ELSE UNCHANGED <<native_codecs, out_codec, msg_queue>>
          ELSE /\ dec' = [dec EXCEPT !.pc = "display", !.msg = m]
               /\ oob' = (oob \/ frame = 0)
               /\ UNCHANGED <<native_codecs, out_codec, msg_queue>>
    /\ UNCHANGED <<display, frame, frames_out,
                   buffer_swapped, decoder_type, line_decoder,
                   decompress_state, accepts_corrupted_frame, received_vid_desc,
                   display_desc, video_mode, max_substreams, merged_fb, decrypt,
                   last_buffer_number, stats, fec_queue, registry, il, lavcd, tile_tasks, rcv, fec,
                   stream, shown>>

\* display_put_frame of the held frame and display_get_frame of the next one
DecDisplay ==
    /\ dec.pc = "display"
    /\ \E ret \in {0, 1} :
         dec' = [dec EXCEPT !.pc = "swap", !.msg.is_displayed = (ret = 0)]
    /\ shown' = Append(shown, dec.msg.id)
    /\ frame' = display_get_frame(frame)
    /\ frames_out' = display_put_frame(frames_out, frame) \cup {display_get_frame(frame)}
    /\ UNCHANGED <<display, buffer_swapped, decoder_type, line_decoder,
                   decompress_state, accepts_corrupted_frame, received_vid_desc,
                   display_desc, native_codecs, out_codec, video_mode,
                   max_substreams, merged_fb, decrypt, last_buffer_number, stats,
                   queueVars, registry, il, lavcd, tile_tasks, rcv, fec, stream, oob>>

\* a "skip_frame:" that ends the message without setting buffer_swapped
DecSwapFlagKept ==
    /\ dec.pc = "swap"
    /\ buffer_swapped' = buffer_swapped
    /\ stats' = frame_msg_dtor(stats, dec.msg)
    /\ dec' = DecStarted
    /\ UNCHANGED <<display, frame, frames_out,
                   decoder_type, line_decoder,
                   decompress_state, accepts_corrupted_frame, received_vid_desc,
                   display_desc, native_codecs, out_codec, video_mode,
                   max_substreams, merged_fb, decrypt, last_buffer_number,
                   queueVars, registry, il, lavcd, tile_tasks, rcv, fec, stream, shown, oob>>

\* "skip_frame:": buffer_swapped is set and signalled; the message ends
DecSwap ==
    /\ dec.pc = "swap"
    /\ buffer_swapped' = TRUE
    /\ stats' = frame_msg_dtor(stats, dec.msg)
    /\ dec' = DecStarted
    /\ UNCHANGED <<display, frame, frames_out,
                   decoder_type, line_decoder,
                   decompress_state, accepts_corrupted_frame, received_vid_desc,
                   display_desc, native_codecs, out_codec, video_mode,
                   max_substreams, merged_fb, decrypt, last_buffer_number,
                   queueVars, registry, il, lavcd, tile_tasks, rcv, fec, stream, shown, oob>>

----------------------------------------------------------------------------
(* The pipeline *)

Receiver ==
    \/ DecodeVideoFrame
    \/ RcvDrain
    \/ RcvReplay
    \/ RcvStopThreads
    \/ RcvReconfigure
    \/ RemoveDisplay
    \/ RcvDisplayRemoved
    \/ RegisterDisplay
    \/ RcvPacket
    \/ RcvPacketBody
    \/ RcvWaitSwap
    \/ RcvClaim
    \/ RcvEndOfList
    \/ RcvPush

FecThread ==
    \/ FecPop
    \/ FecTile
    \/ FecWaitSwap
    \/ FecClaim
    \/ FecPush
    \/ FecPoison

DecompressThread ==
    \/ DecPop
    \/ DecDisplay
    \/ DecSwap

Next == Receiver \/ FecThread \/ DecompressThread

Spec == Init /\ [][Next]_vars

\* The mixed stream under a fair scheduler: a thread that can take a step
\* eventually takes one
FairSpec ==
    /\ InitMixed
    /\ [][Next]_vars
    /\ WF_vars(Receiver)
    /\ WF_vars(FecThread)
    /\ WF_vars(DecompressThread)

(* Plain and encrypted packets to a line decoder, with and without a
   decryptor, under a fair scheduler *)

EncStream ==
    [buffers |-> MaxBuffers, pts |-> {PT_VIDEO, PT_ENCRYPT_VIDEO},
     formats |-> Formats, substreams |-> {0}, lens |-> {BufLen}, skips |-> {0},
     removals |-> 0,
     auth |-> BOOLEAN, offsets |-> {0}]

InitEnc ==
    \E dcr \in BOOLEAN : InitWith(VIDEO_NORMAL, dcr, LineOnlyRegistry, EncStream)

ReceiverEnc ==
    \/ DecodeVideoFrame
    \/ RcvDrain
    \/ RcvStopThreads
    \/ RcvReconfigure
    \/ RcvPacket
    \/ RcvPacketBody
    \/ RcvWaitSwap
    \/ RcvClaim
    \/ RcvEndOfList
    \/ RcvPush

FecThreadEnc == FecPop \/ FecPush \/ FecPoison

NextEnc == ReceiverEnc \/ FecThreadEnc \/ DecompressThread

FairSpecEnc ==
    /\ InitEnc
    /\ [][NextEnc]_vars
    /\ WF_vars(ReceiverEnc)
    /\ WF_vars(FecThreadEnc)
    /\ WF_vars(DecompressThread)

(* An encrypted stream received with the wrong key: the integrity check of
   every encrypted packet fails *)

WrongKeyStream ==
    [buffers |-> MaxBuffers, pts |-> {PT_ENCRYPT_VIDEO, PT_ENCRYPT_VIDEO_LDGM},
     formats |-> Formats, substreams |-> {0}, lens |-> {1, 2}, skips |-> {0},
     removals |-> 0,
     auth |-> {FALSE}, offsets |-> {0}]

InitWrongKey == InitWith(VIDEO_NORMAL, TRUE, PipelineRegistry, WrongKeyStream)

NextWrongKey ==
    \/ DecodeVideoFrame
    \/ RcvDrain
    \/ RcvPacket
    \/ RcvEndOfList
    \/ RcvPush
    \/ FecPop
    \/ FecTile

SpecWrongKey == InitWrongKey /\ [][NextWrongKey]_vars

----------------------------------------------------------------------------
(* The missing-buffers counter on its own: buffers of unknown payload type,
   which decode_video_frame leaves through "cleanup:", numbered around the
   wrap and the half range of the 22-bit counter *)

HalfRange == (BufferMask + 1) \div 2

NumberedStream ==
    [buffers |-> MaxBuffers - 1, pts |-> {PT_UNKNOWN}, formats |-> {}, substreams |-> {},
     lens |-> {},
     skips |-> (0 .. MaxSkip + 1) \cup (HalfRange - 2 .. HalfRange + 1)
                 \cup (BufferMask - 2 .. BufferMask),
     removals |-> 0,
     auth |-> BOOLEAN, offsets |-> {0}]

InitMissing == InitWith(VIDEO_NORMAL, FALSE, PipelineRegistry, NumberedStream)

NextMissing == DecodeVideoFrame \/ RcvDrain \/ RcvPacket

SpecMissing == InitMissing /\ [][NextMissing]_vars

----------------------------------------------------------------------------
(* Codec selection on its own: reconfigure_decoder entered with the workers
   joined, for the displays, registries, formats and video modes below *)

SelectionCodecs == {"UYVY", "RGB", "DXT1", VIDEO_CODEC_NONE}
MaxNative == 3
NativeLists == UNION {[1 .. n -> SelectionCodecs] : n \in 1 .. MaxNative}
LineDecoders == {<<"UYVY", "RGB">>, <<"UYVY", "DXT1">>}
ExtDecoders == {{}, {<<"H264", "UYVY">>, <<"H264", "RGB">>}, {<<"UYVY", "RGB">>}}

\* the receiver inside reconfigure_if_needed for the first packet of its
\* first buffer, the workers flushed and joined
RcvJoining ==
    [RcvIdle(1, 0, TRUE, FALSE, "") EXCEPT
        !.pc = "join", !.retpc = "body",
        !.pk = [NoPk EXCEPT !.pt = PT_VIDEO, !.len = BufLen]]

InitCodec ==
    \E native \in NativeLists, f \in SUBSET LineDecoders, sl \in SUBSET LineDecoders,
       e \in ExtDecoders, desc \in AllFormats, vm \in {VIDEO_NORMAL, VIDEO_STEREO} :
        InitState(vm, FALSE, [native |-> native, fast |-> f, slow |-> sl, ext |-> e],
                  AnyStream, desc, RcvJoining, FecExited, DecExited)

NextCodec == RcvReconfigure

SpecCodec == InitCodec /\ [][NextCodec]_vars

(* Repeated reconfiguration: reconfigure_decoder called again for the
   descriptor the decoder is already set up for *)

MaxCalls == 3

\* reconfigure_if_needed with force set and the descriptor received last,
\* after a reconfiguration that succeeded; calls counts the calls of
\* reconfigure_decoder
ReconfigureForced ==
    /\ rcv.pc = "body"
    /\ frame # 0
    /\ rcv.calls < MaxCalls
    /\ rcv' = [rcv EXCEPT !.pc = "stop", !.retpc = "body", !.calls = @ + 1]
    /\ UNCHANGED <<decoderVars, queueVars, registry, il, lavcd, tile_tasks, fec, dec, stream, shown, oob>>

NextRepeat ==
    \/ RcvReconfigure
    \/ ReconfigureForced
    \/ RcvStopThreads
    \/ FecPop
    \/ FecPoison
    \/ DecPop

SpecRepeat == InitCodec /\ [][NextRepeat]_vars

----------------------------------------------------------------------------
(* The flush of reconfigure_decoder step by step: the workers are restarted
   (line 1044) before cleanup and the set-up of the decoder (1048-1220) *)

\* a flush that does not wait for the workers and leaves them running
RcvFlushNoJoin ==
    /\ rcv.pc = "join"
    /\ rcv.retpc \in {"replay", "body"}
    /\ frames_out' = display_put_frame(frames_out, frame)
    /\ frame' = 0
    /\ rcv' = [rcv EXCEPT !.pc = "setup"]
    /\ UNCHANGED <<display, buffer_swapped, decoder_type, line_decoder,
                   decompress_state, accepts_corrupted_frame, received_vid_desc,
                   display_desc, native_codecs, out_codec, video_mode,
                   max_substreams, merged_fb, decrypt, last_buffer_number, stats,
                   queueVars, registry, il, lavcd, tile_tasks, fec, dec, stream, shown, oob>>

\* reconfigure_decoder, lines 1039-1044: the join of
\* video_decoder_stop_threads, the held frame put back with PUTF_DISCARD,
\* "decoder->frame = NULL" and video_decoder_start_threads
RcvFlush ==
    /\ rcv.pc = "join"
    /\ rcv.retpc \in {"replay", "body"}
    /\ fec.pc = "exited"
    /\ dec.pc = "exited"
    /\ frames_out' = display_put_frame(frames_out, frame)
    /\ frame' = 0
    /\ fec' = FecStarted
    /\ dec' = DecStarted
    /\ rcv' = [rcv EXCEPT !.pc = "setup"]
    /\ UNCHANGED <<display, buffer_swapped, decoder_type, line_decoder,
                   decompress_state, accepts_corrupted_frame, received_vid_desc,
                   display_desc, native_codecs, out_codec, video_mode,
                   max_substreams, merged_fb, decrypt, last_buffer_number, stats,
                   queueVars, registry, il, lavcd, tile_tasks, stream, shown, oob>>

\* reconfigure_decoder from cleanup() to its return, and the
\* "decoder->frame = NULL" of reconfigure_if_needed after a failure
RcvSetup ==
    /\ rcv.pc = "setup"
    /\ \E acc \in BOOLEAN, disp_ok \in BOOLEAN, dcmp_ok \in BOOLEAN :
         LET r == reconfigure_decoder(received_vid_desc, acc, disp_ok, dcmp_ok)
         IN /\ decoder_type' = r.decoder_type
            /\ line_decoder' = r.line_decoder
            /\ decompress_state' = r.decompress_state
            /\ accepts_corrupted_frame' = r.accepts_corrupted_frame
            /\ out_codec' = r.out_codec
            /\ display_desc' = r.display_desc
            /\ merged_fb' = r.merged_fb
            /\ IF r.ok
               THEN /\ frame' = display_get_frame(frame)
                    /\ frames_out' = frames_out \cup {display_get_frame(frame)}
               ELSE /\ frame' = 0
                    /\ UNCHANGED frames_out
    /\ rcv' = [rcv EXCEPT !.pc = rcv.retpc, !.retpc = ""]
    /\ UNCHANGED <<display, buffer_swapped, received_vid_desc, native_codecs,
                   video_mode, max_substreams, decrypt, last_buffer_number, stats,
                   queueVars, registry, il, lavcd, tile_tasks, fec, dec, stream, shown, oob>>

ReceiverFlush ==
    \/ DecodeVideoFrame
    \/ RcvDrain
    \/ RcvReplay
    \/ RcvStopThreads
    \/ RcvFlush
    \/ RcvSetup
    \/ RemoveDisplay
    \/ RcvDisplayRemoved
    \/ RegisterDisplay
    \/ RcvPacket
    \/ RcvPacketBody
    \/ RcvWaitSwap
    \/ RcvClaim
    \/ RcvEndOfList
    \/ RcvPush

NextFlush == ReceiverFlush \/ FecThread \/ DecompressThread

SpecFlush == Init /\ [][NextFlush]_vars

----------------------------------------------------------------------------
(* FEC-bearing buffers of both FEC types, LDGM and Reed-Solomon, to an
   external decoder *)

FecStream ==
    [buffers |-> MaxBuffers, pts |-> {PT_VIDEO_LDGM, PT_VIDEO_RS}, formats |-> {2},
     substreams |-> {0}, lens |-> {BufLen}, skips |-> {0}, removals |-> 0,
     auth |-> BOOLEAN, offsets |-> {0}]

InitFec == InitWith(VIDEO_NORMAL, FALSE, PipelineRegistry, FecStream)

\* the steps FEC-bearing buffers take: no line decoder is set up for the
\* compressed format, so nothing claims the framebuffer
NextFec ==
    \/ DecodeVideoFrame
    \/ RcvDrain
    \/ RcvReplay
    \/ RcvStopThreads
    \/ RcvReconfigure
    \/ RcvPacket
    \/ RcvEndOfList
    \/ RcvPush
    \/ FecPop
    \/ FecTile
    \/ FecPush
    \/ FecPoison
    \/ DecPop
    \/ DecDisplay
    \/ DecSwap

SpecFec == InitFec /\ [][NextFec]_vars

----------------------------------------------------------------------------
(* The video-mode guess: plain buffers of a sender that uses substream 0 and
   one higher substream id, received in each video mode *)

GuessModes == {VIDEO_NORMAL, VIDEO_STEREO, VIDEO_3X1, VIDEO_4K}

GuessStream(s) ==
    [buffers |-> MaxBuffers, pts |-> {PT_VIDEO}, formats |-> Formats,
     substreams |-> {0, s}, lens |-> {BufLen}, skips |-> {0}, removals |-> 0,
     auth |-> BOOLEAN, offsets |-> {0}]

InitGuess ==
    \E vm \in GuessModes, s \in SubstreamIds \ {0} :
        InitWith(vm, FALSE, PipelineRegistry, GuessStream(s))

\* the steps plain buffers take while the display stays bound
NextGuess ==
    \/ DecodeVideoFrame
    \/ RcvDrain
    \/ RcvReplay
    \/ RcvStopThreads
    \/ RcvReconfigure
    \/ RcvPacket
    \/ RcvPacketBody
    \/ RcvWaitSwap
    \/ RcvClaim
    \/ RcvEndOfList
    \/ RcvPush
    \/ FecPop
    \/ FecPush
    \/ FecPoison
    \/ DecompressThread

SpecGuess == InitGuess /\ [][NextGuess]_vars

----------------------------------------------------------------------------
(* The tile tasks of decompress_thread one by one: a two-tile compressed
   stream to an external decoder *)

\* task_run_async: the pool runs task t from now on
task_run_async(running, t) == running \cup {t}

\* wait_task returns once task t has finished
wait_task(running, t) == t \notin running

\* the message at the front of decompress_queue goes to tile tasks:
\* "if (tile_count > 1) handle[pos] = task_run_async(...)"
TiledFront ==
    /\ QCanPop(decompress_queue)
    /\ ~QFront(decompress_queue).poison
    /\ decoder_type = EXTERNAL_DECODER
    /\ VideoModeTiles(video_mode) > 1

\* "msg = decompress_queue.pop()" and the vectors handle(tile_count) and
\* data(tile_count), every data[pos].ret being DECODER_NO_FRAME
DecTake ==
    /\ dec.pc = "pop"
    /\ TiledFront
    /\ decompress_queue' = QPop(decompress_queue)
    /\ LET m == QFront(decompress_queue)
           tile_count == VideoModeTiles(video_mode)
       IN /\ dec' = [dec EXCEPT !.pc = "start", !.msg = m,
                                !.rets = [i \in 1 .. tile_count |-> DECODER_NO_FRAME]]
          /\ oob' = (oob \/ tile_count > Len(m.tiles) \/ tile_count > decompress_state)
    /\ tile_tasks' = NoTasks
    /\ UNCHANGED <<decoderVars, fec_queue, msg_queue, registry, il, lavcd, rcv, fec,
                   stream, shown>>

\* every other message is handled as in DecPop: the poison, a line-decoded
\* frame, a single tile decompressed by the thread itself
DecPopInline ==
    /\ ~TiledFront
    /\ DecPop

\* one turn of the loop that starts the tasks
DecStartTask ==
    /\ dec.pc = "start"
    /\ LET pos == tile_tasks.started + 1
       IN /\ tile_tasks' = [started |-> pos,
                            running |-> task_run_async(tile_tasks.running,
                                                       <<dec.msg.id, pos>>)]
          /\ dec' = [dec EXCEPT !.pc = IF pos = Len(dec.rets) THEN "wait" ELSE "start"]
    /\ UNCHANGED <<decoderVars, queueVars, registry, il, lavcd, rcv, fec, stream, shown, oob>>

\* decompress_worker run by the pool for task t: data[pos].ret is written;
\* a task that outlives the vectors of its message writes to freed memory
TileTask(t) ==
    /\ t \in tile_tasks.running
    /\ tile_tasks' = [tile_tasks EXCEPT !.running = @ \ {t}]
    /\ IF dec.msg.id = t[1] /\ dec.pc \in {"start", "wait"}
       THEN /\ \E r \in DecompressStatus :
                 /\ ~NofecData(dec.msg, t[2]) => r = DECODER_NO_FRAME
                 /\ dec' = [dec EXCEPT !.rets[t[2]] = r]
            /\ UNCHANGED oob
       ELSE /\ oob' = TRUE
            /\ UNCHANGED dec
    /\ UNCHANGED <<decoderVars, queueVars, registry, il, lavcd, rcv, fec, stream, shown>>

\* the inspection of the tile results: "goto skip_frame" and the blacklist
TileInspect ==
    LET rets == dec.rets
    IN IF FirstNotGot(rets) = 0
       THEN /\ dec' = [dec EXCEPT !.pc = "display"]
            /\ UNCHANGED <<native_codecs, out_codec, msg_queue>>
       ELSE /\ dec' = [dec EXCEPT !.pc = "swap"]
            /\ IF BlacklistTriggered(rets)
               THEN /\ native_codecs' = blacklist_native(native_codecs, out_codec)
                    /\ out_codec' =
                         IF \E i \in 1 .. Len(native_codecs) :
                                native_codecs[i] = out_codec
                         THEN VIDEO_CODEC_NONE ELSE out_codec
                    /\ IF out_codec # VIDEO_CODEC_NONE
                       THEN msg_queue' = Append(msg_queue,
                                [desc |-> received_vid_desc,
                                 last_frame |-> NoMsg, force |-> TRUE])
                       ELSE UNCHANGED msg_queue
               ELSE UNCHANGED <<native_codecs, out_codec, msg_queue>>

\* a decompress_thread that inspects the results without wait_task
DecJoinNoWait ==
    /\ dec.pc = "wait"
    /\ TileInspect
    /\ tile_tasks' = [tile_tasks EXCEPT !.started = 0]
    /\ UNCHANGED <<display, frame, frames_out,
                   buffer_swapped, decoder_type, line_decoder,
                   decompress_state, accepts_corrupted_frame, received_vid_desc,
                   display_desc, video_mode, max_substreams, merged_fb, decrypt,
                   last_buffer_number, stats, fec_queue, decompress_queue,
                   registry, il, lavcd, rcv, fec, stream, shown, oob>>

\* "for (pos...) wait_task(handle[pos])" and the inspection of the results
DecJoin ==
    /\ dec.pc = "wait"
    /\ \A pos \in 1 .. Len(dec.rets) :
          wait_task(tile_tasks.running, <<dec.msg.id, pos>>)
    /\ TileInspect
    /\ tile_tasks' = [tile_tasks EXCEPT !.started = 0]
    /\ UNCHANGED <<display, frame, frames_out,
                   buffer_swapped, decoder_type, line_decoder,
                   decompress_state, accepts_corrupted_frame, received_vid_desc,
                   display_desc, video_mode, max_substreams, merged_fb, decrypt,
                   last_buffer_number, stats, fec_queue, decompress_queue,
                   registry, il, lavcd, rcv, fec, stream, shown, oob>>

DecompressTiles ==
    \/ DecTake
    \/ DecPopInline
    \/ DecStartTask
    \/ DecJoin
    \/ DecDisplay
    \/ DecSwap

TaskPool == \E t \in tile_tasks.running : TileTask(t)

InitTiles == InitWith(VIDEO_STEREO, FALSE, PipelineRegistry, TiledStream)

\* the compressed stream sets up no line decoder: nothing claims the
\* framebuffer
NextTiles ==
    \/ DecodeVideoFrame
    \/ RcvDrain
    \/ RcvReplay
    \/ RcvStopThreads
    \/ RcvReconfigure
    \/ RemoveDisplay
    \/ RcvDisplayRemoved
    \/ RegisterDisplay
    \/ RcvPacket
    \/ RcvPacketBody
    \/ RcvEndOfList
    \/ RcvPush
    \/ FecPop
    \/ FecTile
    \/ FecPush
    \/ FecPoison
    \/ DecompressTiles
    \/ TaskPool

SpecTiles == InitTiles /\ [][NextTiles]_vars

----------------------------------------------------------------------------
(* Interlacing: the modes the display reports at registration and the
   transition reconfigure_decoder selects for an incoming mode *)

\* longest list of supported modes a display reports
MaxSupported == 3

SupportedLists ==
    UNION {[1 .. n -> Interlacings] : n \in 0 .. MaxSupported}

\* "struct transcode_t transcode[]"
transcode ==
    <<[in |-> LOWER_FIELD_FIRST, out |-> INTERLACED_MERGED, func |-> "il_lower_to_merged"],
      [in |-> UPPER_FIELD_FIRST, out |-> INTERLACED_MERGED, func |-> "il_upper_to_merged"],
      [in |-> INTERLACED_MERGED, out |-> UPPER_FIELD_FIRST, func |-> "il_merged_to_upper"]>>

\* the least element of a non-empty set of numbers
MinOf(S) == CHOOSE x \in S : \A y \in S : x <= y

\* a select_il_func that looks for a transition before it looks for the
\* incoming mode among the supported ones
select_il_func_transition_first(in_il, supported, out_il) ==
    LET hits == {i \in DOMAIN supported :
                    \E j \in DOMAIN transcode :
                        in_il = transcode[j].in /\ supported[i] = transcode[j].out}
    IN IF hits # {}
       THEN LET i == MinOf(hits)
                j == MinOf({k \in DOMAIN transcode :
                              in_il = transcode[k].in /\ supported[i] = transcode[k].out})
            IN [func |-> transcode[j].func, out_il |-> transcode[j].out]
       ELSE IF \E i \in DOMAIN supported : in_il = supported[i]
       THEN [func |-> "NULL", out_il |-> in_il]
       ELSE [func |-> "NULL", out_il |-> out_il]

\* select_il_func: the function returned and *out_il after the call (out_il
\* is the value the caller had put there)
select_il_func(in_il, supported, out_il) ==
    IF \E i \in DOMAIN supported : in_il = supported[i]
    THEN [func |-> "NULL", out_il |-> in_il]
    ELSE LET hits == {i \in DOMAIN supported :
                         \E j \in DOMAIN transcode :
                             in_il = transcode[j].in /\ supported[i] = transcode[j].out}
         IN IF hits # {}
            THEN LET i == MinOf(hits)
                     j == MinOf({k \in DOMAIN transcode :
                                   in_il = transcode[k].in
                                   /\ supported[i] = transcode[k].out})
                 IN [func |-> transcode[j].func, out_il |-> transcode[j].out]
            ELSE [func |-> "NULL", out_il |-> out_il]

\* video_decoder_register_display: DISPLAY_PROPERTY_SUPPORTED_IL_MODES
RegisterIl ==
    /\ \E sup \in SupportedLists : il' = [NoIl EXCEPT !.supported = sup]
    /\ UNCHANGED <<decoderVars, queueVars, registry, lavcd, rcv, fec, dec, stream,
                   shown, oob, tile_tasks>>

\* reconfigure_decoder: "decoder->change_il = select_il_func(desc.interlacing,
\* decoder->disp_supported_il, decoder->disp_supported_il_cnt, &display_il)"
\* with "enum interlacing_t display_il = PROGRESSIVE"
SelectIl ==
    /\ \E in_il \in Interlacings :
         LET r == select_il_func(in_il, il.supported, PROGRESSIVE)
         IN il' = [il EXCEPT !.in_il = in_il, !.change_il = r.func,
                             !.display_il = r.out_il, !.selected = TRUE]
    /\ UNCHANGED <<decoderVars, queueVars, registry, lavcd, rcv, fec, dec, stream,
                   shown, oob, tile_tasks>>

InitIl == InitWith(VIDEO_NORMAL, FALSE, PipelineRegistry, AnyStream)

NextIl == RegisterIl \/ SelectIl

SpecIl == InitIl /\ [][NextIl]_vars

----------------------------------------------------------------------------
(* Properties *)

\* a stage holds the framebuffer claim: it has cleared buffer_swapped for the
\* buffer it works on and has not yet passed that buffer on
RcvHoldsClaim == rcv.swapped
FecHoldsClaim == fec.swapped

\* C1: single-writer framebuffer.  The decompress/display stage never reads,
\* submits or replaces decoder->frame while the receiver stage or the FEC
\* stage is inside its critical section.
C1_SingleWriter ==
    dec.pc = "display" => ~RcvHoldsClaim /\ ~FecHoldsClaim

\* C2: poison termination.  Once video_decoder_stop_threads has pushed the
\* poison message, both workers eventually exit (so both joins return) and
\* both queues are empty.
C2_PoisonTermination ==
    (rcv.pc = "join") ~>
        (/\ fec.pc = "exited"
         /\ dec.pc = "exited"
         /\ fec_queue = <<>>
         /\ decompress_queue = <<>>)

\* C3: end-to-end frame order.  Frames are submitted to the display in the
\* order in which the receiver accepted their buffers (ids count the
\* receiver's calls), replayed frames included.
C3_FrameOrder ==
    \A i, j \in DOMAIN shown : i < j => shown[i] < shown[j]

\* a queue grows only at its tail
GrowsAtTail(q, q2) == Len(q2) = Len(q) + 1 /\ SubSeq(q2, 1, Len(q)) = q

\* C4: queue order.  Each queue changes only by a push at its tail or by the
\* consumer taking its oldest message, and a stage takes the next message
\* only when it has finished the previous one; so the k-th message enqueued
\* is processed before the (k+1)-th.
C4_QueueOrder ==
    [][/\ fec_queue' # fec_queue =>
            \/ GrowsAtTail(fec_queue, fec_queue')
            \/ /\ fec_queue # <<>>
               /\ fec_queue' = Tail(fec_queue)
               /\ fec.pc = "pop" /\ fec.data = NoMsg
               /\ fec'.data = NoMsg \/ fec'.data.id = Head(fec_queue).id
       /\ decompress_queue' # decompress_queue =>
            \/ GrowsAtTail(decompress_queue, decompress_queue')
            \/ /\ decompress_queue # <<>>
               /\ decompress_queue' = Tail(decompress_queue)
               /\ dec.pc = "pop" /\ dec.msg = NoMsg
               /\ dec'.msg = NoMsg \/ dec'.msg.id = Head(decompress_queue).id
       /\ fec.data = NoMsg /\ fec'.data # NoMsg =>
            /\ fec_queue # <<>>
            /\ fec'.data.id = Head(fec_queue).id
            /\ fec_queue' = Tail(fec_queue)
       /\ dec.msg = NoMsg /\ dec'.msg # NoMsg =>
            /\ decompress_queue # <<>>
            /\ dec'.msg.id = Head(decompress_queue).id
            /\ decompress_queue' = Tail(decompress_queue)
       /\ fec.data # NoMsg /\ fec'.data # NoMsg => fec'.data.id = fec.data.id
       /\ dec.msg # NoMsg /\ dec'.msg # NoMsg => dec'.msg.id = dec.msg.id]_vars

\* two accepted frames are in the pipeline, the earlier one a stage ahead
C4_Witness ==
    /\ fec.data.id > 0
    /\ dec.msg.id > 0
    /\ dec.msg.id < fec.data.id

\* C5: queue capacity.  fec_queue and decompress_queue never hold more than
\* one message, so the frame messages between the receiver and the display
\* are at most one per queue slot and one per stage.
FramesInFlight ==
    Len(fec_queue) + Len(decompress_queue)
        + (IF rcv.msg # NoMsg THEN 1 ELSE 0)
        + (IF fec.data # NoMsg THEN 1 ELSE 0)
        + (IF dec.msg # NoMsg THEN 1 ELSE 0)

C5_QueueCapacity ==
    /\ Len(fec_queue) <= 1
    /\ Len(decompress_queue) <= 1
    /\ FramesInFlight <= 5

\* both queues are full and the receiver waits to push
C5_Witness ==
    /\ Len(fec_queue) = 1
    /\ Len(decompress_queue) = 1
    /\ rcv.pc = "push"

\* a step in which a call of decode_video_frame returns
RcvReturns == rcv'.pc = "idle" /\ rcv' # rcv /\ rcv.pc # "join"

\* the causes for which a call returns false
DropReasons ==
    {"no_display", "enc_mismatch", "unknown_pt", "unknown_cipher", "substream",
     "empty", "no_frame"}

\* C6: decode_video_frame returns true if and only if it built a frame
\* message for the given buffer and pushed it on fec_queue; it returns false
\* and pushes nothing when no display is bound, the encryption does not match,
\* the payload type or the cipher is unknown, a substream is out of range,
\* the packet list is empty or there is no frame for a plain payload type.
C6_ReturnValue ==
    [][/\ RcvReturns =>
            /\ rcv'.ret <=> /\ rcv.msg # NoMsg
                            /\ rcv.msg.buffer_num = rcv'.buffer_number
                            /\ fec_queue' = Append(fec_queue, rcv.msg)
            /\ ~rcv'.ret => fec_queue' = fec_queue /\ rcv'.why \in DropReasons
            /\ rcv'.why = "no_display" => ~display
            /\ rcv'.why = "no_frame" => frame = 0
            /\ rcv'.why = "empty" => rcv.npk = 0
       /\ rcv.pc = "idle" /\ rcv'.calls # rcv.calls /\ ~display =>
            rcv'.pc = "idle" /\ ~rcv'.ret]_vars

\* a call has just returned true and its message waits in fec_queue
C6_Witness ==
    /\ rcv.pc = "idle"
    /\ rcv.ret
    /\ fec_queue # <<>>
    /\ Head(fec_queue).id = rcv.calls

\* the increment of the missing counter as the 22-bit distance of two buffer
\* numbers, capped at half the range
ModularDistance(b_prev, b_curr) ==
    LET d == (b_curr - b_prev - 1) % (BufferMask + 1)
    IN IF d <= HalfRange THEN d ELSE 1

\* C7: modular missing counter.  For consecutive processed buffer numbers
\* b_prev and b_curr, stats.missing grows by (b_curr - b_prev - 1) mod 2^22
\* when that is at most 2^21 and by 1 otherwise.
C7_MissingCounter ==
    [][rcv.pc = "pkt" /\ rcv'.pc = "idle" /\ rcv'.why = "unknown_pt"
         /\ last_buffer_number # -1
       => stats'.missing - stats.missing
            = ModularDistance(last_buffer_number, rcv.buffer_number)]_vars

\* a message with a tile whose recorded packets sum to less than its length
Lossy(m) == \E i \in 1 .. Len(m.tiles) : TileIncomplete(m.tiles[i])

\* C8 as stated: a message with missing bytes is flagged corrupted exactly
\* when it carries no FEC or FEC returned a non-zero length; so every lossy
\* message the FEC stage passes on is flagged.
C8_FlaggedWhenBytesMissing ==
    \A i \in DOMAIN decompress_queue :
        ~decompress_queue[i].poison /\ Lossy(decompress_queue[i])
            => decompress_queue[i].is_corrupted

\* C8: loss detection.  A message with missing bytes is flagged corrupted
\* exactly when it carries no FEC or the FEC decoding of one of its tiles
\* returned zero length; a lossy message that FEC reconstructed is passed on
\* unflagged.
C8_LossDetection ==
    [][/\ fec.pc = "push" /\ decompress_queue' = Append(decompress_queue, fec.data)
            /\ Lossy(fec.data)
          => (fec.data.is_corrupted <=> fec.data.fec.type = FEC_NONE)
       /\ fec.pc = "tile" /\ fec' # fec /\ Lossy(fec.data)
            /\ fec.pos < Len(fec.data.tiles)
          => (stats'.corrupted = stats.corrupted + 1
                <=> FecDecodeFails(fec.data, fec.data.tiles[fec.pos + 1]))
       /\ fec.pc = "pop" /\ fec_queue # <<>> /\ fec_queue' = Tail(fec_queue)
            /\ ~Head(fec_queue).poison /\ Head(fec_queue).fec.type = FEC_NONE
            /\ Lossy(Head(fec_queue))
          => \/ stats'.corrupted = stats.corrupted + 1
             \/ fec'.data # NoMsg /\ fec'.data.is_corrupted]_vars

\* a message that lost bytes and was reconstructed by FEC waits unflagged
C8_Witness ==
    /\ decompress_queue # <<>>
    /\ Head(decompress_queue).fec.type = FEC_LDGM
    /\ Lossy(Head(decompress_queue))
    /\ ~Head(decompress_queue).is_corrupted

\* the kinds of match in the order of their priority: 1 identity, 2 fast
\* line decoder, 3 slow line decoder, 4 external decompressor
MatchKinds == 1 .. 4

\* native entry i is a match of kind k for the source codec src
Matches(k, i, src) ==
    CASE k = 1 -> /\ native_codecs[i] = src
                  /\ ~(src \in DXTCodecs /\ video_mode # VIDEO_NORMAL)
      [] k = 2 -> <<src, native_codecs[i]>> \in registry.fast
      [] k = 3 -> <<src, native_codecs[i]>> \in registry.slow
      [] OTHER -> <<src, native_codecs[i]>> \in registry.ext

\* C9: codec selection priority.  After a reconfiguration the output codec is
\* the first native entry matching by the first kind, in the order identity,
\* fast line decoder, slow line decoder, external decompressor, that has a
\* match at all, wherever the entries stand in the native list; when no
\* kind has a match, decoder_type stays unset and the reconfiguration fails.
C9_SelectionPriority ==
    rcv.pc = "body" =>
        LET src == FormatCodec(received_vid_desc)
            Has(k) == \E i \in DOMAIN native_codecs : Matches(k, i, src)
            kinds == {k \in MatchKinds : Has(k)}
        IN IF kinds = {}
           THEN decoder_type = UNSET /\ frame = 0 /\ out_codec = VIDEO_CODEC_NONE
           ELSE LET k == CHOOSE x \in kinds : \A y \in kinds : x <= y
                    is == {i \in DOMAIN native_codecs : Matches(k, i, src)}
                    i == CHOOSE x \in is : \A y \in is : x <= y
                IN /\ out_codec = native_codecs[i]
                   /\ decoder_type = IF k = 4 THEN EXTERNAL_DECODER ELSE LINE_DECODER

\* a display advertising [DXT1, UYVY, RGB], a UYVY source with line decoders
\* to DXT1 and to RGB: the identity to the second entry is selected
C9_Witness ==
    /\ rcv.pc = "body"
    /\ native_codecs = <<"DXT1", "UYVY", "RGB">>
    /\ FormatCodec(received_vid_desc) = "UYVY"
    /\ registry.fast = LineDecoders
    /\ out_codec = "UYVY"
    /\ decoder_type = LINE_DECODER

\* C10: if any tile task of a frame returns cant_decode, whatever the other
\* tiles returned and whatever its index, the current output codec is removed
\* from the native list, out_codec is cleared, a forced request is pushed on
\* msg_queue and the frame is not displayed; if any tile returns no_frame the
\* frame is not displayed either.
C10_CantDecode ==
    [][dec.pc = "pop" /\ dec' # dec /\ dec'.pc # "exited"
         /\ decoder_type = EXTERNAL_DECODER
       => LET rets == dec'.rets
          IN /\ (out_codec # VIDEO_CODEC_NONE
                   /\ \E i \in DOMAIN rets : rets[i] = DECODER_CANT_DECODE)
                => /\ out_codec' = VIDEO_CODEC_NONE
                   /\ \A i \in DOMAIN native_codecs' : native_codecs'[i] # out_codec
                   /\ msg_queue' = Append(msg_queue,
                                          [desc |-> received_vid_desc,
                                           last_frame |-> NoMsg, force |-> TRUE])
                   /\ dec'.pc # "display"
             /\ (\E i \in DOMAIN rets : rets[i] = DECODER_NO_FRAME)
                => dec'.pc # "display"]_vars

\* the codecs of the bound display that have been blacklisted: their entries
\* of the native list are cleared
Blacklisted(native) ==
    {registry.native[i] : i \in {j \in DOMAIN native : native[j] = VIDEO_CODEC_NONE}}

\* a step in which reconfigure_decoder runs
Reconfigures == rcv.pc = "join" /\ rcv.retpc \in {"replay", "body"} /\ rcv'.pc # "join"

FailedReconfiguration ==
    /\ display
    /\ frame = 0
    /\ display_desc # NoDesc
    /\ rcv.pc \notin {"stop", "join"}

\* C12 as stated: after a failed reconfiguration every call of
\* decode_video_frame returns false until a reconfiguration succeeds.
C12_EveryBufferRefused ==
    [][RcvReturns /\ FailedReconfiguration => ~rcv'.ret]_vars

\* C12: after a failed reconfiguration there is no frame; until a later
\* reconfiguration succeeds a buffer of a plain payload type is refused by
\* decode_video_frame, a FEC-bearing buffer is accepted and then dropped in
\* the FEC stage, nothing is written to a framebuffer and nothing is
\* displayed; a plain packet is refused without a reconfiguration only when
\* its format is the one received last, and a reconfiguration started by a
\* packet is for that packet's format.
C12_ReconfigureFailure ==
    [][/\ Reconfigures /\ decoder_type' = UNSET => frame' = 0
       /\ RcvReturns /\ display /\ frame = 0 /\ rcv'.ret => PT_VIDEO_HAS_FEC(rcv.pt)
       /\ rcv.pc = "claim" /\ rcv'.pc # "claim" => frame # 0
       /\ fec.pc = "claim" /\ fec'.pc # "claim" => frame # 0
       /\ shown' # shown => frame # 0
       /\ Len(decompress_queue') > Len(decompress_queue)
            /\ ~decompress_queue'[Len(decompress_queue')].poison => frame # 0
       /\ rcv.pc = "body" /\ RcvReturns /\ rcv'.why = "no_frame"
            => rcv.pk.fmt = received_vid_desc
       /\ Reconfigures /\ rcv.retpc = "body" => received_vid_desc = rcv.pk.fmt]_vars

\* a reconfiguration has failed and a FEC-bearing buffer accepted since then
\* is in the FEC stage, about to be dropped for want of a frame
C12_Witness ==
    /\ FailedReconfiguration
    /\ fec.pc = "tile"
    /\ fec.data.id = rcv.calls
    /\ fec.data.fmt = received_vid_desc
    /\ fec.frame = 0

C15_DecoderTypeInvariant ==
    /\ decoder_type = LINE_DECODER <=> (line_decoder # 0 /\ decompress_state = 0)
    /\ decoder_type = EXTERNAL_DECODER <=> (decompress_state # 0 /\ line_decoder = 0)

PutRefused ==
    /\ dec.pc = "swap"
    /\ shown # <<>>
    /\ shown[Len(shown)] = dec.msg.id
    /\ ~dec.msg.is_displayed

\* C17: display drop accounting.  A message whose frame display_put_frame did
\* not accept is not marked displayed, the 'dropped' counter of the
\* statistics is incremented for it when the message ends, and the frame is
\* not submitted again.
C17_DropAccounting ==
    [][/\ PutRefused /\ dec' # dec
          => /\ stats'.displayed = stats.displayed
             /\ stats'.dropped = stats.dropped + 1
       /\ shown' # shown
          => /\ shown' = Append(shown, dec.msg.id)
             /\ \A i \in DOMAIN shown : shown[i] # dec.msg.id]_vars

\* C18: FEC outcome accounting.  A FEC-bearing message with a tile on which
\* the FEC decode returns zero length is flagged corrupted and ends in the
\* FEC stage: it is not forwarded to decompress_queue, not kept for a replay
\* and not displayed.  Every FEC-bearing message that is destroyed adds one
\* to exactly one of fec_ok, fec_corrected and fec_nok (fec_nok iff it is
\* corrupted, fec_ok iff it is not and all declared bytes were received,
\* fec_corrected iff it is not and bytes were missing); a message without
\* FEC changes none of the three.
C18_FecAccounting ==
    [][/\ /\ fec.pc = "tile" /\ fec' # fec
          /\ fec.pos < Len(fec.data.tiles)
          /\ FecDecodeFails(fec.data, fec.data.tiles[fec.pos + 1])
          => /\ fec'.data = NoMsg
             /\ stats'.corrupted = stats.corrupted + 1
             /\ stats'.fec_nok = stats.fec_nok + 1
             /\ decompress_queue' = decompress_queue
             /\ msg_queue' = msg_queue
             /\ shown' = shown
       /\ Len(decompress_queue') > Len(decompress_queue)
          => LET m == decompress_queue'[Len(decompress_queue')]
             IN m.poison \/ m.fec.type = FEC_NONE \/ ~m.is_corrupted
       /\ shown' # shown /\ dec.msg.fec.type # FEC_NONE => ~dec.msg.is_corrupted
       /\ LET ok == stats'.fec_ok - stats.fec_ok
              corrected == stats'.fec_corrected - stats.fec_corrected
              nok == stats'.fec_nok - stats.fec_nok
              m == IF dec' # dec THEN dec.msg
                   ELSE IF fec.pc = "tile" THEN fec.data
                   ELSE Head(fec_queue)
              corrupted == stats'.corrupted # stats.corrupted
          IN IF stats'.reported_frames # stats.reported_frames /\ m.fec.type # FEC_NONE
             THEN /\ {ok, corrected, nok} = {0, 1}
                  /\ ok + corrected + nok = 1
                  /\ nok = 1 <=> corrupted
                  /\ ok = 1 <=> ~corrupted /\ received_bytes(m) = vf_get_data_len(m)
                  /\ corrected = 1 <=> ~corrupted /\ received_bytes(m) < vf_get_data_len(m)
             ELSE ok = 0 /\ corrected = 0 /\ nok = 0]_vars

\* a FEC frame that could not be reconstructed and a FEC frame that was
\* reconstructed from fewer bytes than declared have both been accounted
C18_Witness ==
    /\ stats.fec_nok = 1
    /\ stats.fec_corrected = 1
    /\ stats.corrupted = 1

\* a message without FEC that has a tile with fewer received bytes than
\* declared
IncompletePlain(m) ==
    /\ ~m.poison
    /\ m.fec.type = FEC_NONE
    /\ \E i \in DOMAIN m.tiles : sum_map(m.tiles[i].pckt_list) < m.tiles[i].data_len

\* the decoder drops corrupted frames: external decoder that does not accept
\* them
DropsCorrupted == decoder_type = EXTERNAL_DECODER /\ ~accepts_corrupted_frame

\* C19: incomplete tile without FEC.  The FEC stage flags a non-FEC message
\* with an incomplete tile as corrupted.  With an external decoder that does
\* not accept corrupted frames the message ends there: it is destroyed,
\* counted as corrupted, and never reaches decompress_queue or the display.
\* With a line decoder it is passed on to decompress_queue and the
\* decompress stage submits it to the display.  stats.missing is not changed
\* in either case.
C19_IncompleteTile ==
    [][/\ /\ fec.pc = "pop" /\ fec_queue # <<>> /\ fec_queue' = Tail(fec_queue)
          /\ IncompletePlain(Head(fec_queue))
          => /\ stats'.missing = stats.missing
             /\ IF DropsCorrupted
                THEN /\ fec'.data = NoMsg /\ fec'.pc = "pop"
                     /\ stats'.corrupted = stats.corrupted + 1
                     /\ stats'.reported_frames = stats.reported_frames + 1
                     /\ decompress_queue' = decompress_queue
                     /\ shown' = shown
                ELSE /\ fec'.pc = "push"
                     /\ fec'.data = [Head(fec_queue) EXCEPT !.is_corrupted = TRUE]
                     /\ stats' = stats
       /\ Len(decompress_queue') > Len(decompress_queue)
            /\ IncompletePlain(decompress_queue'[Len(decompress_queue')])
          => /\ ~DropsCorrupted
             /\ decompress_queue'[Len(decompress_queue')].is_corrupted
       /\ dec.pc = "pop" /\ dec' # dec /\ IncompletePlain(Head(decompress_queue))
            /\ decoder_type = LINE_DECODER
          => dec'.pc = "display" /\ dec'.msg = Head(decompress_queue)
       /\ shown' # shown /\ IncompletePlain(dec.msg)
          => ~DropsCorrupted /\ stats'.missing = stats.missing]_vars

\* an incomplete frame without FEC is at the display in line-decoder mode
\* after another one was dropped by the FEC stage in external mode
C19_Witness ==
    /\ dec.pc = "display"
    /\ IncompletePlain(dec.msg)
    /\ dec.msg.is_corrupted
    /\ decoder_type = LINE_DECODER
    /\ stats.corrupted > 0

\* the receiver drops the buffer of its n-th call because a packet's
\* encryption does not match the decoder's
EncDropped(n) == rcv.pc = "idle" /\ rcv.calls = n /\ rcv.why = "enc_mismatch"

\* C20: encryption consistency.  A buffer with a plain packet while a
\* decryptor is configured, or with an encrypted packet while none is, is
\* dropped as a whole: decode_video_frame returns false and enqueues no
\* message for it; and the pipeline keeps accepting later buffers: the call
\* for the next buffer returns.
C20_EncryptionConsistency ==
    /\ [][rcv'.pc = "idle" /\ rcv' # rcv /\ rcv'.why = "enc_mismatch"
          => /\ ~rcv'.ret
             /\ ~rcv'.pushed
             /\ fec_queue' = fec_queue]_vars
    /\ \A n \in 1 .. (MaxBuffers - 1) :
          EncDropped(n) ~> (rcv.pc = "idle" /\ rcv.calls = n + 1)

----------------------------------------------------------------------------
(* The libavcodec decompressor (video_decompress/libavcodec.c): instances
   created, reconfigured and destroyed by threads of their own, sharing the
   process-wide codec lock *)

\* color specs a reconfigure is called with; all but the last have a case
\* in the switch of configure_with
LavcCodecs == {"H264", "MJPG", "JPEG", "VP8", "UYVY"}
\* the cases of that switch
LavcDecoders == {"H264", "MJPG", "JPEG", "VP8"}
\* desc.width * desc.height
LavcSizes == {0, 1}

\* rm_acquire_shared_lock(LAVCD_LOCK_NAME): one more user of the named lock
rm_acquire_shared_lock(l) == [l EXCEPT !.refs = @ + 1]
\* rm_release_shared_lock(LAVCD_LOCK_NAME)
rm_release_shared_lock(l) == [l EXCEPT !.refs = @ - 1]

\* "s->max_compressed_len = 4 * desc.width * desc.height; return
\* s->max_compressed_len" of libavcodec_decompress_reconfigure, reached
\* whatever configure_with returned
ReconfigureReturns(s, ok) ==
    [s EXCEPT !.ok = ok, !.ret = 4 * s.size, !.pc = "idle", !.calls = @ + 1]

\* libavcodec_decompress_init
LavcInit(i) ==
    /\ lavcd.inst[i].pc = "none"
    /\ ~lavcd.crashed
    /\ UNCHANGED pipelineVars
    /\ lavcd' = [rm_acquire_shared_lock(lavcd) EXCEPT
                   !.inst[i] = [NoInstance EXCEPT !.pc = "idle"]]

\* libavcodec_decompress_reconfigure up to the call of deconfigure
LavcReconfigure(i) ==
    /\ lavcd.inst[i].pc = "idle"
    /\ ~lavcd.crashed
    /\ UNCHANGED pipelineVars
    /\ lavcd.inst[i].calls < MaxReconf
    /\ \E c \in LavcCodecs, sz \in LavcSizes :
         lavcd' = [lavcd EXCEPT !.inst[i] = [@ EXCEPT !.in_codec = c, !.size = sz,
                                                       !.pc = "deconf",
                                                       !.after = "conf",
                                                       !.log = <<>>]]

\* libavcodec_decompress_done up to the call of deconfigure
LavcDone(i) ==
    /\ lavcd.inst[i].pc = "idle"
    /\ ~lavcd.crashed
    /\ UNCHANGED pipelineVars
    /\ lavcd' = [lavcd EXCEPT !.inst[i] = [@ EXCEPT !.pc = "deconf",
                                                   !.after = "release",
                                                   !.log = <<>>]]

\* deconfigure: "if(s->codec_ctx) pthread_mutex_lock", else straight to the
\* av_free calls; freeing a pointer that was freed before is undefined
LavcDeconfigure(i) ==
    /\ lavcd.inst[i].pc = "deconf"
    /\ ~lavcd.crashed
    /\ UNCHANGED pipelineVars
    /\ LET s == lavcd.inst[i]
       IN IF s.codec_ctx # "null"
          THEN /\ lavcd.lock = 0
               /\ lavcd' = [lavcd EXCEPT !.lock = i, !.inst[i].pc = "close"]
          ELSE \/ lavcd' = [lavcd EXCEPT
                              !.inst[i] = [s EXCEPT
                                  !.pc = s.after,
                                  !.frame = IF @ = "null" THEN "null" ELSE "freed"]]
               \/ /\ s.frame = "freed"
                  /\ lavcd' = [lavcd EXCEPT !.crashed = TRUE]

\* avcodec_close returns, the lock is released and the context, the frame
\* and the packet are freed; closing or freeing freed memory is undefined
LavcClose(i) ==
    /\ lavcd.inst[i].pc = "close"
    /\ ~lavcd.crashed
    /\ UNCHANGED pipelineVars
    /\ LET s == lavcd.inst[i]
       IN \/ lavcd' = [lavcd EXCEPT
                         !.lock = 0,
                         !.inst[i] = [s EXCEPT
                             !.pc = s.after,
                             !.codec_ctx = "freed",
                             !.frame = IF @ = "null" THEN "null" ELSE "freed"]]
          \/ /\ "freed" \in {s.codec_ctx, s.frame}
             /\ lavcd' = [lavcd EXCEPT !.crashed = TRUE]

\* configure_with up to "pthread_mutex_lock": the codec switch,
\* avcodec_find_decoder and avcodec_alloc_context3
LavcConfigure(i) ==
    /\ lavcd.inst[i].pc = "conf"
    /\ ~lavcd.crashed
    /\ UNCHANGED pipelineVars
    /\ LET s == lavcd.inst[i]
       IN \E found \in BOOLEAN, ctx \in {"null", "alloc"} :
            IF s.in_codec \notin LavcDecoders \/ ~found
            THEN lavcd' = [lavcd EXCEPT !.inst[i] = ReconfigureReturns(s, FALSE)]
            ELSE IF ctx = "null"
            THEN lavcd' = [lavcd EXCEPT
                             !.inst[i] = ReconfigureReturns([s EXCEPT !.codec_ctx = "null"],
                                                            FALSE)]
            ELSE lavcd' = [lavcd EXCEPT !.inst[i] = [s EXCEPT !.codec_ctx = "alloc",
                                                               !.pc = "lock"]]

\* "pthread_mutex_lock(s->global_lavcd_lock)" before avcodec_open2
LavcLock(i) ==
    /\ lavcd.inst[i].pc = "lock"
    /\ ~lavcd.crashed
    /\ UNCHANGED pipelineVars
    /\ lavcd.lock = 0
    /\ lavcd' = [lavcd EXCEPT !.lock = i, !.inst[i].pc = "open"]

\* a configure_with that returns false from a failed avcodec_open2 without
\* "pthread_mutex_unlock"
LavcOpenKeepsLock(i) ==
    /\ lavcd.inst[i].pc = "open"
    /\ ~lavcd.crashed
    /\ UNCHANGED pipelineVars
    /\ LET s == lavcd.inst[i]
       IN \E opened \in BOOLEAN, fr \in {"null", "alloc"} :
            IF ~opened
            THEN lavcd' = [lavcd EXCEPT !.inst[i] = ReconfigureReturns(s, FALSE)]
            ELSE lavcd' = [lavcd EXCEPT
                             !.lock = 0,
                             !.inst[i] = ReconfigureReturns(
                                            IF fr = "null"
                                            THEN [s EXCEPT !.codec_ctx = "open",
                                                           !.frame = fr]
                                            ELSE [s EXCEPT !.codec_ctx = "open",
                                                           !.frame = fr,
                                                           !.last_frame_seq = -1,
                                                           !.log = <<>>],
                                            fr # "null")]

\* avcodec_open2 returns: the lock is released on both paths; then
\* avcodec_alloc_frame, and the return of reconfigure
LavcOpen(i) ==
    /\ lavcd.inst[i].pc = "open"
    /\ ~lavcd.crashed
    /\ UNCHANGED pipelineVars
    /\ LET s == lavcd.inst[i]
       IN \E opened \in BOOLEAN, fr \in {"null", "alloc"} :
            IF ~opened
            THEN lavcd' = [lavcd EXCEPT !.lock = 0,
                                        !.inst[i] = ReconfigureReturns(s, FALSE)]
            ELSE lavcd' = [lavcd EXCEPT
                             !.lock = 0,
                             !.inst[i] = ReconfigureReturns(
                                            IF fr = "null"
                                            THEN [s EXCEPT !.codec_ctx = "open",
                                                           !.frame = fr]
                                            ELSE [s EXCEPT !.codec_ctx = "open",
                                                           !.frame = fr,
                                                           !.last_frame_seq = -1,
                                                           !.log = <<>>],
                                            fr # "null")]

\* libavcodec_decompress_done after deconfigure: the shared lock is released
\* and the state freed
LavcRelease(i) ==
    /\ lavcd.inst[i].pc = "release"
    /\ ~lavcd.crashed
    /\ UNCHANGED pipelineVars
    /\ lavcd' = [rm_release_shared_lock(lavcd) EXCEPT !.inst[i].pc = "done"]

\* "buf_size = decompress_reconfigure(...); if(!buf_size) return false" over
\* the decompressors of reconfigure_decoder in external mode
reconfigure_external(bufs) == \A i \in DOMAIN bufs : bufs[i] # 0

InitLavcd == InitWith(VIDEO_NORMAL, FALSE, PipelineRegistry, AnyStream)

NextLavcd ==
    \E i \in Instances :
       \/ LavcInit(i)
       \/ LavcReconfigure(i)
       \/ LavcDone(i)
       \/ LavcDeconfigure(i)
       \/ LavcClose(i)
       \/ LavcConfigure(i)
       \/ LavcLock(i)
       \/ LavcOpen(i)
       \/ LavcRelease(i)

SpecLavcd == InitLavcd /\ [][NextLavcd]_vars

\* ---- libavcodec_decompress: the I-frame synchronisation ----

\* decompress calls followed after one configure_with
MaxDecompress == 3
\* frame_seq is the buffer number of the frame, 0 .. MaxSeq here
MaxSeq == 3
\* pictures avcodec_decode_video2 may find in one packet
MaxFrames == 2

AV_PICTURE_TYPE_I == "I"
AV_PICTURE_TYPE_P == "P"
AV_PICTURE_TYPE_B == "B"
PictTypes == {AV_PICTURE_TYPE_I, AV_PICTURE_TYPE_P, AV_PICTURE_TYPE_B}

\* what one round of the loop meets: len and got_frame of
\* avcodec_decode_video2, the pict_type of the decoded picture and the result
\* of change_pixfmt (TRUE when the pixel format of the picture has a
\* conversion, which then writes dst)
DecodeRounds ==
    [len : {-1}, got_frame : {FALSE}, pict_type : {AV_PICTURE_TYPE_I}, conv : BOOLEAN]
      \cup [len : {1}, got_frame : {FALSE}, pict_type : {AV_PICTURE_TYPE_I}, conv : {FALSE}]
      \cup [len : {1}, got_frame : {TRUE}, pict_type : PictTypes, conv : BOOLEAN]

RECURSIVE SeqsUpTo(_, _)
\* the sequences over S of length 0 .. n
SeqsUpTo(S, n) ==
    IF n = 0 THEN {<<>>}
    ELSE LET shorter == SeqsUpTo(S, n - 1)
         IN shorter \cup {Append(q, x) : q \in {r \in shorter : Len(r) = n - 1}, x \in S}

\* the picture types a decoder produces: Motion JPEG has intra pictures only
CodecPictTypes(in_codec) ==
    IF in_codec \in {"MJPG", "JPEG"} THEN {AV_PICTURE_TYPE_I} ELSE PictTypes

\* the packets handed to libavcodec_decompress, as the rounds of its loop
LavcPackets(in_codec) ==
    {pkt \in SeqsUpTo(DecodeRounds, MaxFrames) :
       \A p \in 1..Len(pkt) : pkt[p].pict_type \in CodecPictTypes(in_codec)}

\* the condition under which a decoded picture is converted (default build:
\* LAVD_ACCEPT_CORRUPTED and DISABLE_H264_INTRA_REFRESH undefined)
lavd_accepts(in_codec, pict_type, last_frame_seq, frame_seq) ==
    \/ pict_type = AV_PICTURE_TYPE_I
    \/ in_codec = "H264"
    \/ pict_type = AV_PICTURE_TYPE_P /\ last_frame_seq = frame_seq - 1

RECURSIVE decode_loop(_, _, _, _, _, _)
\* "while (s->pkt.size > 0)": the rounds left in pkt, with last_frame_seq,
\* res and the pictures written to dst so far.  A decode error returns at
\* once, for JPEG with the conversion of whatever s->frame holds
decode_loop(in_codec, frame_seq, pkt, last_frame_seq, res, out) ==
    IF pkt = <<>>
    THEN [last_frame_seq |-> last_frame_seq, res |-> res, out |-> out]
    ELSE LET d == Head(pkt)
         IN IF d.len < 0 /\ in_codec = "JPEG"
            THEN [last_frame_seq |-> last_frame_seq, res |-> d.conv,
                  out |-> IF d.conv THEN Append(out, "stale") ELSE out]
            ELSE IF d.len < 0
            THEN [last_frame_seq |-> last_frame_seq, res |-> FALSE, out |-> out]
            ELSE IF ~d.got_frame
            THEN decode_loop(in_codec, frame_seq, Tail(pkt), last_frame_seq, res, out)
            ELSE IF lavd_accepts(in_codec, d.pict_type, last_frame_seq, frame_seq) /\ d.conv
            THEN decode_loop(in_codec, frame_seq, Tail(pkt), frame_seq, TRUE,
                             Append(out, d.pict_type))
            ELSE decode_loop(in_codec, frame_seq, Tail(pkt), last_frame_seq, FALSE, out)

\* libavcodec_decompress(state, dst, src, src_len, frame_seq) on the state s
libavcodec_decompress(s, frame_seq, pkt) ==
    LET r == decode_loop(s.in_codec, frame_seq, pkt, s.last_frame_seq, FALSE, <<>>)
    IN [s EXCEPT !.last_frame_seq = r.last_frame_seq,
                 !.log = Append(@, [seq |-> frame_seq, res |-> r.res, out |-> r.out])]

\* the frame_seq values a next call can carry: buffer numbers grow from one
\* decoded frame to the next
NextSeqs(s) ==
    {n \in 0..MaxSeq : s.log = <<>> \/ n > s.log[Len(s.log)].seq}

\* decompress_frame on a decompressor whose last reconfigure succeeded
LavcDecompress(i) ==
    /\ lavcd.inst[i].pc = "idle"
    /\ ~lavcd.crashed
    /\ UNCHANGED pipelineVars
    /\ LET s == lavcd.inst[i]
       IN /\ s.ok
          /\ Len(s.log) < MaxDecompress
          /\ \E frame_seq \in NextSeqs(s), pkt \in LavcPackets(s.in_codec) :
               lavcd' = [lavcd EXCEPT !.inst[i] = libavcodec_decompress(s, frame_seq, pkt)]

\* one decompressor from init to done, decompressing while configured
NextSync ==
    \E i \in {1} :
       \/ LavcInit(i)
       \/ LavcReconfigure(i)
       \/ LavcDone(i)
       \/ LavcDeconfigure(i)
       \/ LavcClose(i)
       \/ LavcConfigure(i)
       \/ LavcLock(i)
       \/ LavcOpen(i)
       \/ LavcRelease(i)
       \/ LavcDecompress(i)

SpecSync == InitLavcd /\ [][NextSync]_vars

\* C21: a decryption failure drops one packet, not the buffer.  The loop
\* turn of a packet whose decrypt returns 0 (nfail counts them) records
\* nothing in the packet map or the tiles, writes no framebuffer, takes no
\* framebuffer claim and starts no format check or reconfiguration; the loop
\* goes on with the next packet, and the buffer is refused at the end only
\* when the decoder holds no frame for a plain payload type; otherwise its
\* message is enqueued.
C21_DecryptFailure ==
    [][/\ rcv'.nfail = rcv.nfail + 1
          => /\ rcv.pc = "pkt" /\ rcv'.pc = "pkt"
             /\ rcv'.tiles = rcv.tiles
             /\ rcv'.swapped = rcv.swapped
             /\ rcv'.npk = rcv.npk + 1
             /\ PT_VIDEO_IS_ENCRYPTED(rcv'.pt)
             /\ UNCHANGED <<decoderVars, queueVars, fec, dec, shown>>
       /\ rcv.pc = "pkt" /\ rcv.nfail > 0 /\ rcv'.pc = "idle" /\ rcv'.why = "no_frame"
          => frame = 0
       /\ rcv.pc = "pkt" /\ rcv.nfail > 0 /\ rcv'.pc = "idle"
          => rcv'.why # "empty"
       /\ rcv.pc = "push" /\ rcv.nfail > 0 /\ rcv' # rcv
          => /\ fec_queue' = Append(fec_queue, rcv.msg)
             /\ rcv'.ret /\ rcv'.pushed]_vars

\* a buffer with a packet that failed decryption and a packet that was
\* recorded is about to be enqueued
C21_Witness ==
    /\ rcv.pc = "push"
    /\ rcv.nfail = 1
    /\ rcv.npk = 2
    /\ \E i \in DOMAIN rcv.tiles : rcv.tiles[i].data_len > 0

\* C22: wrong key from the start of the stream.  While every packet of
\* every buffer fails decryption, no message is enqueued on fec_queue or
\* held by a worker, no frame is displayed, no worker reads out of bounds
\* and no counter other than missing advances.
C22_WrongKey ==
    /\ fec_queue = <<>>
    /\ decompress_queue = <<>>
    /\ fec.data = NoMsg
    /\ dec.msg = NoMsg
    /\ shown = <<>>
    /\ ~oob
    /\ [stats EXCEPT !.missing = 0] = ZeroStats

\* the packets accepted for substream s tile [0, BufLen): every offset of the
\* buffer lies in exactly one of them, a packet received twice counting once
CoversBuffer(acc, s) ==
    LET P == {p \in acc : p[1] = s}
    IN /\ \A p \in P : p[3] > 0 /\ p[2] + p[3] <= BufLen
       /\ \A o \in Offsets :
             Cardinality({p \in P : p[2] <= o /\ o < p[2] + p[3]}) = 1

\* C23: reassembly completeness.  When the packets accepted so far for a
\* substream cover [0, buffer_length) contiguously, the lengths in the
\* packet map of that substream sum to buffer_length, which is the tile's
\* data_len; and the FEC stage does not flag or drop a plain message all of
\* whose tiles are complete.
C23_Reassembly ==
    [][/\ \A i \in DOMAIN rcv'.tiles :
             CoversBuffer(rcv'.acc, i - 1)
                => /\ sum_map(rcv'.tiles[i].pckt_list) = BufLen
                   /\ rcv'.tiles[i].data_len = BufLen
       /\ rcv'.msg # NoMsg => rcv'.msg.tiles = rcv'.tiles
       /\ LET m == Head(fec_queue)
          IN /\ fec.pc = "pop" /\ fec' # fec
             /\ ~m.poison /\ m.fec.type = FEC_NONE
             /\ \A i \in DOMAIN m.tiles : ~TileIncomplete(m.tiles[i])
             => /\ fec'.pc = "push"
                /\ fec'.data = m
                /\ ~fec'.data.is_corrupted
                /\ stats' = stats]_vars

\* C24: display binding and worker lifetime.  A display is bound only when
\* none is bound, and binding it starts both workers; the workers have
\* exited exactly when no display is bound or the receiver is joining them
\* (in a reconfiguration or before unbinding); the display is unbound only
\* after both workers have exited and leaves the decoder without a frame;
\* and a decode_video_frame call without a display returns false, enqueues
\* nothing and leaves the statistics and last_buffer_number unchanged.
C24_DisplayBinding ==
    [][/\ display' /\ ~display
          => /\ fec' = FecStarted /\ dec' = DecStarted
             /\ rcv.pc = "idle"
       /\ ~display' /\ display
          => /\ fec.pc = "exited" /\ dec.pc = "exited"
             /\ rcv.pc = "join"
       /\ ~display'
          => /\ frame' = 0
             /\ fec'.pc = "exited" /\ dec'.pc = "exited"
       /\ display' /\ rcv'.pc # "join"
          => fec'.pc # "exited" /\ dec'.pc # "exited"
       /\ ~display /\ rcv'.calls = rcv.calls + 1
          => /\ rcv'.pc = "idle"
             /\ ~rcv'.ret /\ ~rcv'.pushed
             /\ UNCHANGED <<stats, last_buffer_number, queueVars, fec, dec>>]_vars

\* a buffer has been refused because no display is bound
C24_Witness ==
    /\ ~display
    /\ rcv.pc = "idle"
    /\ rcv.why = "no_display"
    /\ last_buffer_number >= 0

\* the instances inside avcodec_open2 or avcodec_close
InCodecCall == {i \in Instances : lavcd.inst[i].pc \in {"open", "close"}}

\* C25: process-wide codec lock.  At most one thread is inside avcodec_open2
\* or avcodec_close; an instance holds the shared lock exactly while it is
\* inside such a call, so the lock is released on every path out of the
\* call, the failed open included; and the references taken on the shared
\* lock in init are those of the instances not yet released in done.
C25_CodecLock ==
    /\ Cardinality(InCodecCall) <= 1
    /\ \A i \in Instances : i \in InCodecCall <=> lavcd.lock = i
    /\ lavcd.refs =
          Cardinality({i \in Instances : lavcd.inst[i].pc \notin {"none", "done"}})

\* one instance is inside avcodec_open2 and holds the lock, after the open
\* of another instance has failed
C25_Witness ==
    \E i, j \in Instances :
       /\ i # j
       /\ lavcd.inst[i].pc = "open"
       /\ lavcd.lock = i
       /\ lavcd.inst[j].pc = "idle"
       /\ lavcd.inst[j].codec_ctx = "alloc"
       /\ ~lavcd.inst[j].ok

\* the instances whose last reconfigure has returned
Reconfigured ==
    {i \in Instances : lavcd.inst[i].pc = "idle" /\ lavcd.inst[i].calls > 0}

\* C26: a decompressor reconfigure failure is reported and aborts.  A
\* reconfigure whose configure_with failed has returned 0, and when the
\* decompressors of all substreams have been reconfigured and one of them
\* failed, reconfigure_decoder's loop over their buffer sizes returns false.
C26_ReconfigureReports ==
    /\ \A i \in Reconfigured : ~lavcd.inst[i].ok => lavcd.inst[i].ret = 0
    /\ Reconfigured = Instances /\ (\E i \in Instances : ~lavcd.inst[i].ok)
          => ~reconfigure_external([i \in Instances |-> lavcd.inst[i].ret])

\* C27: the decompress/display stage sets buffer_swapped for every message.
\* A pop of a non-poison message takes the stage to the display block or,
\* when a tile returned no_frame or cant_decode, straight to skip_frame; the
\* display block submits the held frame and acquires the next one without
\* touching buffer_swapped; the stage returns to the pop only through
\* skip_frame, which sets buffer_swapped to true and takes no message.
C27_SwapAfterEveryMessage ==
    [][/\ dec.pc = "pop" /\ dec' # dec /\ dec'.pc # "exited"
          => /\ dec'.msg = Head(decompress_queue)
             /\ ~dec'.msg.poison
             /\ dec'.pc \in {"display", "swap"}
             /\ dec'.pc = "swap" => FirstNotGot(dec'.rets) # 0
       /\ dec.pc = "display" /\ dec' # dec
          => /\ dec'.pc = "swap"
             /\ shown' = Append(shown, dec.msg.id)
             /\ frame' # 0 /\ frame' # frame
             /\ buffer_swapped' = buffer_swapped
       /\ dec.pc = "swap" /\ dec' # dec
          => /\ buffer_swapped'
             /\ dec'.pc = "pop"
             /\ decompress_queue' = decompress_queue
       /\ dec'.pc = "pop" /\ dec.pc # "pop"
          => dec.pc \in {"swap", "exited"}]_vars

\* the display has refused the frame of a message while the framebuffer
\* claim of its buffer is still held
C27_Witness ==
    /\ dec.pc = "swap"
    /\ ~buffer_swapped
    /\ ~dec.msg.is_displayed
    /\ shown # <<>>
    /\ shown[Len(shown)] = dec.msg.id

\* C28: the framebuffer claim is always released.  Whenever buffer_swapped
\* is false it eventually becomes true again, and a thread waiting in
\* wait_for_framebuffer_swap eventually leaves the wait.
C28_ClaimReleased ==
    /\ (~buffer_swapped) ~> buffer_swapped
    /\ (rcv.pc = "wait") ~> (rcv.pc # "wait")
    /\ (fec.pc = "wait") ~> (fec.pc # "wait")

\* C29: writer mutual exclusion.  The receiver stage and the FEC stage never
\* hold the framebuffer claim together, and never have both returned from
\* wait_for_framebuffer_swap without one of them having cleared
\* buffer_swapped in between.
C29_WriterExclusion ==
    /\ ~(RcvHoldsClaim /\ FecHoldsClaim)
    /\ ~(rcv.pc = "claim" /\ fec.pc = "claim")

\* C30: writes go to the currently held frame.  When the FEC stage is about
\* to line-decode a tile (it has passed the wait) or has done so for the
\* message it works on, the frame it writes is the frame the decoder holds,
\* one the display has handed out and not got back.
C30_WritesHeldFrame ==
    fec.pc = "claim" \/ (fec.swapped /\ fec.pc = "tile")
       => fec.frame = frame /\ fec.frame \in frames_out


\* C31: whenever a worker indexes the tiles, packet maps, line decoders or
\* decompressor states of a message, the index is below the tile count the
\* message and the decoder arrays were allocated with; the receiver's
\* video-mode guess never makes a worker iterate beyond a queued message
C31_TileCountAgreement == ~oob


\* the pipeline between the receiver and the display holds nothing: both
\* queues are empty, both workers sit in their pop without a message, and the
\* frame the decoder held has been given back
Flushed ==
    /\ fec_queue = <<>>
    /\ decompress_queue = <<>>
    /\ fec.pc = "pop" /\ fec.data = NoMsg
    /\ dec.pc = "pop" /\ dec.msg = NoMsg
    /\ frame = 0
    /\ frames_out = {}

\* C32 as stated: when reconfigure_decoder starts to change decoder state,
\* every message enqueued earlier has been completely processed by both
\* workers (none waits anywhere), the held frame has been returned, both
\* queues are empty and the restarted workers are blocked in pop
C32_AllProcessed ==
    rcv.pc = "setup" =>
        /\ Flushed
        /\ rcv.req.last_frame = NoMsg
        /\ \A i \in DOMAIN msg_queue : msg_queue[i].last_frame = NoMsg

\* C32 (amended): while reconfigure_decoder changes decoder state the
\* pipeline is flushed (queues empty, restarted workers blocked in pop with
\* no message, held frame returned) and no worker takes a step; decoder_type,
\* line_decoder and decompress_state change in no other step of the
\* pipeline, and out_codec otherwise only when the decompress stage
\* blacklists it.  Messages handed back by the FEC stage may still wait in
\* ReconfigureRequests
C32_PipelineFlush ==
    [][/\ rcv.pc = "setup" => Flushed /\ fec' = fec /\ dec' = dec
       /\ <<decoder_type, line_decoder, decompress_state>>' #
              <<decoder_type, line_decoder, decompress_state>>
          => rcv.pc = "setup"
       /\ out_codec' # out_codec => rcv.pc = "setup" \/ dec.pc = "pop"
       /\ rcv'.pc = "setup" => Flushed']_vars

\* a reconfiguration for a new format starts to set up the decoder after
\* frames of the old format went through the pipeline
C32_Witness ==
    /\ rcv.pc = "setup"
    /\ rcv.retpc = "body"
    /\ shown # <<>>
    /\ decoder_type # UNSET


\* the frames carried by the ReconfigureRequests of a sequence
CarriedFrames(q) ==
    [i \in 1 .. Len(SelectSeq(q, LAMBDA r : r.last_frame # NoMsg)) |->
        SelectSeq(q, LAMBDA r : r.last_frame # NoMsg)[i].last_frame]

\* every frame message that exists after its push by the receiver: in a
\* queue, in the hands of a worker, or carried by a ReconfigureRequest
LiveMessages ==
    SelectSeq(fec_queue \o <<fec.data>> \o decompress_queue \o <<dec.msg>>
                  \o CarriedFrames(msg_queue \o <<rcv.req>>),
              LAMBDA m : m # NoMsg /\ ~m.poison)

\* no message exists twice
NoDuplicate ==
    \A i, j \in DOMAIN LiveMessages :
        LiveMessages[i].id = LiveMessages[j].id => i = j

\* messages alive plus messages destroyed and counted
Accounted == Len(LiveMessages) + stats.reported_frames

\* one step of the pipeline seen from a message whose recovered header differs
\* from received_vid_desc: the FEC stage does not forward it but destroys it
\* as unrecoverable or hands it back in exactly one ReconfigureRequest; the
\* receiver drains a request, reconfigures when the format differs or the
\* request is forced, and re-enqueues the carried message exactly once; on
\* the way the message is neither lost nor duplicated
HandBackAndReplay ==
    /\ NoDuplicate /\ NoDuplicate'
    /\ ( /\ fec.pc = "tile" /\ fec' # fec
         /\ fec.pos < Len(fec.data.tiles)
         /\ fec.data.fmt # received_vid_desc )
       => /\ decompress_queue' = decompress_queue
          /\ fec' = FecIdle(fec)
          /\ \/ /\ msg_queue' = Append(msg_queue, [desc |-> fec.data.fmt,
                                                   last_frame |-> fec.data,
                                                   force |-> FALSE])
                /\ stats' = stats
             \/ /\ msg_queue' = msg_queue
                /\ stats' = frame_msg_dtor(stats, [fec.data EXCEPT !.is_corrupted = TRUE])
    /\ (rcv.pc = "drain" /\ rcv' # rcv /\ msg_queue # <<>>)
       => /\ msg_queue' = Tail(msg_queue)
          /\ rcv'.req = Head(msg_queue)
          /\ rcv'.pc = IF Head(msg_queue).desc # received_vid_desc
                          \/ Head(msg_queue).force
                       THEN "stop" ELSE "replay"
          /\ received_vid_desc' = Head(msg_queue).desc
          /\ Accounted' = Accounted
    /\ (rcv.req # NoReq /\ rcv'.req # rcv.req)
       => /\ rcv.pc = "replay"
          /\ rcv'.req = NoReq
          /\ rcv.req.last_frame # NoMsg
               => fec_queue' = Append(fec_queue, rcv.req.last_frame)
          /\ rcv.req.last_frame = NoMsg => fec_queue' = fec_queue
          /\ Accounted' = Accounted

\* C33: a FEC-bearing message whose recovered header differs from
\* received_vid_desc is handed back in one ReconfigureRequest instead of
\* being forwarded; the receiver's next invocation drains the request,
\* reconfigures if needed and re-enqueues the carried message on fec_queue
\* exactly once, so that the message is neither lost nor duplicated
C33_HandBackAndReplay ==
    /\ [][HandBackAndReplay]_vars
    /\ (rcv.req.last_frame # NoMsg) ~> (rcv.req = NoReq)


\* C34: a FEC-bearing message is decoded with a FEC state created from a
\* descriptor equal to the message's fec_params in all fields; the state is
\* recreated only for a FEC-bearing message whose parameters differ from the
\* current ones (and dropped when the thread ends), and kept otherwise
C34_FecState ==
    [][/\ (fec.pc = "pop" /\ fec'.pc = "tile") => fec'.desc = fec'.data.fec
       /\ fec.pc = "tile" => fec.desc = fec.data.fec
       /\ fec'.desc # fec.desc
          => \/ fec'.desc.type = FEC_NONE /\ fec'.pc \in {"exited", "pop"}
                /\ fec'.data = NoMsg
             \/ /\ fec.pc = "pop" /\ fec'.pc = "tile"
                /\ fec'.data.fec.type # FEC_NONE
                /\ fec'.data.fec # fec.desc
                /\ fec'.desc = fec'.data.fec]_vars


\* the fixed table of the mode guess
GuessTable(n) ==
    CASE n = 1 -> VIDEO_NORMAL
      [] n = 2 -> VIDEO_STEREO
      [] n = 3 -> VIDEO_3X1
      [] n = 4 -> VIDEO_4K
      [] OTHER -> VIDEO_UNKNOWN

\* the receiver leaves the call because of a substream id >= max_substreams
GuessStep == rcv.pc = "pkt" /\ rcv'.pc = "idle" /\ rcv'.why = "substream"

\* received_vid_desc has been invalidated (width 0) or never set
Invalidated == received_vid_desc <= 0

\* C35: a packet with substream id >= max_substreams makes the receiver
\* guess the mode from substream + 1 by the fixed table; an unknown mode
\* changes nothing; on a successful guess video_mode and max_substreams
\* change together, max_substreams = tiles_x * tiles_y = substream + 1 is
\* larger than before and received_vid_desc is invalidated; the buffer is
\* dropped without a message being enqueued; video_mode and max_substreams
\* change in no other step; while the descriptor is invalidated no plain
\* packet is taken into a frame, the next one starts a reconfiguration
C35_ModeGuess ==
    [][/\ GuessStep
          => /\ ~rcv'.ret /\ ~rcv'.pushed
             /\ fec_queue' = fec_queue
             /\ \E s \in stream.substreams :
                  /\ s >= max_substreams
                  /\ IF GuessTable(s + 1) = VIDEO_UNKNOWN
                     THEN UNCHANGED <<video_mode, max_substreams, received_vid_desc>>
                     ELSE /\ video_mode' = GuessTable(s + 1)
                          /\ max_substreams' = s + 1
                          /\ max_substreams' = get_video_mode_tiles_x(video_mode')
                                                 * get_video_mode_tiles_y(video_mode')
                          /\ max_substreams' > max_substreams
                          /\ Invalidated'
       /\ <<video_mode, max_substreams>>' # <<video_mode, max_substreams>> => GuessStep
       /\ (Invalidated /\ received_vid_desc' # received_vid_desc) => rcv'.pc = "stop"
       /\ (Invalidated /\ rcv.pc = "pkt" /\ rcv' # rcv)
          => rcv'.pc \in {"idle", "stop"}]_vars

\* a mode with three tiles has been guessed for a decoder configured for
\* some format, and the buffer was dropped
C35_Witness ==
    /\ rcv.pc = "idle"
    /\ rcv.why = "substream"
    /\ ~rcv.ret
    /\ video_mode = VIDEO_3X1
    /\ max_substreams = 3
    /\ received_vid_desc < 0
    /\ decoder_type # UNSET


\* the tile tasks that have been started and have not finished
RunningTasks == tile_tasks.running

\* C36: in external-decoder mode with more than one tile the decompress
\* stage starts one task per tile and waits for all of them before it
\* inspects a result, submits the frame or sets buffer_swapped; no task of a
\* frame is running when the frame is submitted, when the flag is set, or
\* when a task of another frame starts, and no task outlives its message
C36_TasksJoin ==
    [][/\ \A t \in RunningTasks : dec.pc \in {"start", "wait"} /\ t[1] = dec.msg.id
       /\ dec.pc = "wait" => tile_tasks.started = Len(dec.rets)
       /\ (dec.pc = "wait" /\ dec'.pc # "wait")
          => /\ RunningTasks = {}
             /\ Len(dec.rets) = VideoModeTiles(video_mode)
       /\ shown' # shown => RunningTasks = {}
       /\ (dec.pc = "swap" /\ dec' # dec) => RunningTasks = {}
       /\ \A t \in RunningTasks' \ RunningTasks :
             /\ dec.pc = "start"
             /\ t = <<dec.msg.id, tile_tasks.started + 1>>
             /\ \A u \in RunningTasks : u[1] = t[1] /\ u[2] < t[2]]_vars

\* the second two-tile frame is about to be submitted after its two tasks
\* have delivered their results
C36_Witness ==
    /\ dec.pc = "display"
    /\ Len(dec.rets) = 2
    /\ shown # <<>>
    /\ dec.msg.id \notin {shown[i] : i \in DOMAIN shown}
    /\ RunningTasks = {}


\* the modes of a supported list
SupportedSet == {il.supported[i] : i \in DOMAIN il.supported}

\* the transitions the decoder knows: <<incoming, outgoing, function>>
KnownTransitions ==
    {<<LOWER_FIELD_FIRST, INTERLACED_MERGED, "il_lower_to_merged">>,
     <<UPPER_FIELD_FIRST, INTERLACED_MERGED, "il_upper_to_merged">>,
     <<INTERLACED_MERGED, UPPER_FIELD_FIRST, "il_merged_to_upper">>}

\* the transitions from the incoming mode to a supported one
UsableTransitions ==
    {t \in KnownTransitions : t[1] = il.in_il /\ t[2] \in SupportedSet}

\* C37: for every incoming interlacing and every supported list,
\* select_il_func returns no function and reports the incoming mode when the
\* display supports it; otherwise it returns one of the three known
\* transitions from the incoming mode whose output is supported and reports
\* that output; when there is none it returns no function
C37_SelectIl ==
    il.selected =>
        IF il.in_il \in SupportedSet
        THEN il.change_il = "NULL" /\ il.display_il = il.in_il
        ELSE IF UsableTransitions # {}
        THEN <<il.in_il, il.display_il, il.change_il>> \in UsableTransitions
        ELSE il.change_il = "NULL"

\* lower-field-first video for a display that takes merged and
\* lower-field-first: shown as it comes
C37_Witness ==
    /\ il.selected
    /\ il.in_il = LOWER_FIELD_FIRST
    /\ il.supported = <<INTERLACED_MERGED, LOWER_FIELD_FIRST>>
    /\ il.change_il = "NULL"


\* the calls of log before call k that wrote a picture to dst
WritingCalls(log, k) == {j \in 1..(k - 1) : log[j].out # <<>>}

\* the last call before call k that wrote a picture, 0 when there is none
PrecedingOutput(log, k) ==
    IF WritingCalls(log, k) = {} THEN 0
    ELSE CHOOSE j \in WritingCalls(log, k) : \A h \in WritingCalls(log, k) : h <= j

\* the frame_seq of the last picture a decoded frame was converted from, -1
\* when the calls since the reconfigure converted none
LastConverted(log) ==
    LET conv == {j \in 1..Len(log) :
                   \E p \in 1..Len(log[j].out) : log[j].out[p] \in PictTypes}
    IN IF conv = {} THEN -1
       ELSE log[CHOOSE j \in conv : \A h \in conv : h <= j].seq

\* C38: I-frame synchronisation of the libavcodec decompressor for a codec
\* other than H.264.  In every call since the reconfigure that wrote a
\* P-frame, the P-frame is the first picture the call wrote, the call
\* directly before it wrote a picture and carried the frame_seq one less (no
\* gap and no failure in between); and last_frame_seq is the frame_seq of the
\* last successful conversion
C38_IFrameSync ==
    \A i \in Instances :
       LET s == lavcd.inst[i]
       IN (s.pc = "idle" /\ s.ok /\ s.in_codec # "H264") =>
            /\ s.last_frame_seq = LastConverted(s.log)
            /\ \A k \in 1..Len(s.log) :
                 \A p \in 1..Len(s.log[k].out) :
                    s.log[k].out[p] = AV_PICTURE_TYPE_P =>
                       /\ p = 1
                       /\ PrecedingOutput(s.log, k) = k - 1
                       /\ k > 1
                       /\ s.log[k - 1].seq = s.log[k].seq - 1

\* the ids of the non-poison messages that exist
LiveIds == {LiveMessages[i].id : i \in DOMAIN LiveMessages}

\* the FEC outcomes counted so far
FecCounted == stats.fec_ok + stats.fec_corrected + stats.fec_nok

\* the tallies that only a destructor raises never exceed the number of
\* messages folded
FoldedBounds ==
    /\ stats.displayed <= stats.reported_frames
    /\ stats.corrupted <= stats.reported_frames
    /\ FecCounted <= stats.reported_frames

\* one step seen from the statistics: reported_frames grows by the number of
\* non-poison messages that cease to exist in the step (none when only a
\* poison message is consumed), no message exists twice, and each of
\* displayed, corrupted and the FEC outcomes grows by at most what
\* reported_frames grows by
FoldOnce ==
    /\ NoDuplicate
    /\ stats'.reported_frames = stats.reported_frames + Cardinality(LiveIds \ LiveIds')
    /\ stats'.displayed - stats.displayed
         \in 0 .. (stats'.reported_frames - stats.reported_frames)
    /\ stats'.corrupted - stats.corrupted
         \in 0 .. (stats'.reported_frames - stats.reported_frames)
    /\ FecCounted' - FecCounted \in 0 .. (stats'.reported_frames - stats.reported_frames)

\* C39: statistics folding.  Every non-poison message is folded into the
\* shared statistics exactly once, in the step in which it ceases to exist,
\* whatever way it leaves the pipeline, and a poison message adds nothing;
\* so displayed, corrupted and fec_ok + fec_corrected + fec_nok never exceed
\* reported_frames
C39_StatisticsFolding == []FoldedBounds /\ [][FoldOnce]_vars

\* two messages were folded, one displayed and one not, and none is left
C39_Witness ==
    /\ stats.reported_frames = 2
    /\ stats.displayed = 1
    /\ LiveIds = {}
    /\ fec.pc = "pop" /\ dec.pc = "pop"
====
